---- MODULE Spec2Model ----
(***************************************************************************)
(* Camera / viewport controller of the portfolio canvas                    *)
(* (frontend/components/block/InfiniteCanvas/InfiniteCanvas.tsx).          *)
(*                                                                         *)
(* Units.  Scales are integers in thousandths (1000 = scale 1.0), so that  *)
(* 0.7, 0.95 * 1.0, 0.95 * 0.7, 1.5 and 3 are exact.  Positions and pan    *)
(* distances are whole pixels.  A screen-space displacement handed to the  *)
(* click handler is in thousandths of a pixel (pixels * scale).            *)
(***************************************************************************)
EXTENDS Integers, FiniteSets, Sequences, TLC

VARIABLES
    canvasScale,        \* canvasScaleRef.current
    moveSinceZoom,      \* moveSinceZoomRef.current
    zoomStage,          \* zoomStageRef.current (0 none, 1 full zoom, 2 intermediate)
    isDragging,         \* isDraggingRef.current
    dragDistance,       \* dragDistanceRef.current
    zoomBeforeDrag,     \* zoomBeforeDragRef.current
    activeTileIndex,    \* activeTileIndexRef.current / activeTileIndex state
    moveSinceActive,    \* moveSinceActiveRef.current
    worldOffset,        \* worldOffsetRef.current, the smoothed position
    panBounds,          \* panBoundsRef.current
    incr,               \* incrXRef.current, incrYRef.current
    tween,              \* the two quickTo tweens on worldOffset: running flag and end value
    isPanning,          \* isPanningRef.current
    panningTimeout,     \* number of pending debounce timeouts set by markPanning
    isIntroAnimating,   \* isIntroAnimatingRef.current
    introPhase,         \* "loading" | "animating" | "done": the loading overlay and the intro tween
    pressed,            \* the gesture observer is inside a drag (between its drag start and drag end)
    dragResetTimers,    \* number of pending 50 ms reset timeouts scheduled by onDragEnd
    layout,             \* the measurements the DOM currently reports (viewport and content size)
    projects,           \* the projects prop
    tiles,              \* tilesWithCategories, the memoised tile descriptors
    activeCategories,   \* activeCategories of the gallery filter context
    tilesWithVisibility,\* tilesWithVisibility, the memoised descriptors with isVisible
    isHovered,          \* the indices of the tiles whose isHovered state is true
    pointerOver,        \* the tile the pointer has entered and not left, or NoTile
    shouldPlayVideo     \* the indices of the tiles last rendered with shouldPlayVideo = true

vars == <<canvasScale, moveSinceZoom, zoomStage, isDragging, dragDistance,
          zoomBeforeDrag, activeTileIndex, moveSinceActive, worldOffset,
          panBounds, incr, tween, isPanning, panningTimeout, isIntroAnimating,
          introPhase, pressed, dragResetTimers, layout, projects, tiles,
          activeCategories, tilesWithVisibility, isHovered, pointerOver,
          shouldPlayVideo>>

NoTile == -1

----------------------------------------------------------------------------
(* Program constants (scales in thousandths).                              *)

CANVAS_ZOOM_DEFAULT == 1000
CANVAS_ZOOM_MAX == 3000
CANVAS_ZOOM_MIN == 700
CANVAS_ZOOM_INTRO == 400
CANVAS_ZOOM_DEFAULT_MOBILE == 1000
CANVAS_ZOOM_MAX_MOBILE == 1500
CANVAS_ZOOM_MIN_MOBILE == 700
CANVAS_ZOOM_INTRO_MOBILE == 500
INTERMEDIATE_CANVAS_ZOOM == 1500
FIRST_ZOOM_OUT_THRESHOLD == 500
SECOND_ZOOM_OUT_THRESHOLD == 2000
ACTIVE_TILE_CLEAR_THRESHOLD == 200
PAN_SENSITIVITY == 1
MOBILE_BREAKPOINT == 768
EDGE_PADDING == 120
PAN_EXPANSION_FACTOR == CANVAS_ZOOM_MAX \div 1000
TAP_DISTANCE == 10

----------------------------------------------------------------------------
(* Bounds of the model and the inputs the environment may deliver.         *)

MaxPendingResets == 1
MaxDragDistance == 500
MaxMoveSinceZoom == 2250

\* Viewport and content measurements; the overflows and the height
\* differences are even, so the halvings in recalcPanBounds are exact.
Desktop == [vw |-> 1000, vh |-> 800, cw |-> 1160, ch |-> 960]
Mobile == [vw |-> 400, vh |-> 800, cw |-> 560, ch |-> 960]
MobileWide == [vw |-> 400, vh |-> 800, cw |-> 960, ch |-> 960]

Tiles == {0, 1}

\* Inputs of Spec (zoom stages, scale, active tile): the two device classes,
\* pan distances below, at and above the thresholds, wheel deltas that reach
\* both zoom limits, and tiles in the far corner of the canvas.
Layouts == {Desktop, Mobile}
PanDeltasX == {500}
PanDeltasY == {250}
WheelDeltas == { [dx |-> 0, dy |-> 2300], [dx |-> -2300, dy |-> 100] }
TileCentres == { [x |-> 1000, y |-> 1000] }

\* Inputs of SpecCamera (position, bounds, smoothing): two layouts with
\* different pan bounds, pans in both directions, tiles inside and outside
\* the smaller bounds.
CameraMaxMove == 500
CameraLayouts == {Desktop, MobileWide}
CameraPanDeltasX == {-500}
CameraPanDeltasY == {500}
CameraWheelDeltas == { [dx |-> 0, dy |-> 2300] }
CameraTileCentres == { [x |-> 1000, y |-> 120] }

\* Inputs of SpecLatch (active-tile latch): pans shorter than
\* ACTIVE_TILE_CLEAR_THRESHOLD.
LatchMaxMove == 600
LatchPanDeltasX == {500}
LatchPanDeltasY == {100}

\* Inputs of SpecStage (stage transitions): a single pan event longer than
\* SECOND_ZOOM_OUT_THRESHOLD, and a short one.
StageMaxDrag == 2750
StageMaxMove == 2750
StagePanDeltasX == {2500}
StagePanDeltasY == {250}

\* Inputs of SpecWheel (the wheel between the stages): as SpecStage, with a
\* wheel delta that steps the scale down through the values between the zoom
\* limits.
StageWheelDeltas == { [dx |-> 0, dy |-> 300] }

\* Inputs of SpecBounds (the bounds computation): every combination of these
\* viewport and content sizes, content smaller than the viewport and sizes of
\* zero (nothing laid out yet) included.
BoundsLayouts ==
    [vw : {0, 320, 1000, 1920}, vh : {0, 600, 800},
     cw : {0, 200, 1160, 2400}, ch : {0, 200, 960}]

ZeroLayout == [vw |-> 0, vh |-> 0, cw |-> 0, ch |-> 0]

AllPanDeltas ==
    PanDeltasX \cup PanDeltasY \cup CameraPanDeltasX \cup CameraPanDeltasY
        \cup LatchPanDeltasX \cup LatchPanDeltasY \cup StagePanDeltasX \cup StagePanDeltasY
AllTileCentres == TileCentres \cup CameraTileCentres
AllWheelDeltas == WheelDeltas \cup CameraWheelDeltas \cup StageWheelDeltas

----------------------------------------------------------------------------
(* Pure helpers.                                                           *)

Abs(v) == IF v < 0 THEN -v ELSE v

Max(a, b) == IF a > b THEN a ELSE b

Min(a, b) == IF a < b THEN a ELSE b

\* Mutant of Clamp: the upper limit is not applied.
Clamp_LowerOnly(lo, hi, v) == IF v < lo THEN lo ELSE v

\* gsap.utils.clamp(min, max, value)
Clamp(lo, hi, v) == IF v < lo THEN lo ELSE IF v > hi THEN hi ELSE v

IsMobileViewport(l) == l.vw <= MOBILE_BREAKPOINT

MaxZoom(l) == IF IsMobileViewport(l) THEN CANVAS_ZOOM_MAX_MOBILE ELSE CANVAS_ZOOM_MAX

MinZoom(l) == IF IsMobileViewport(l) THEN CANVAS_ZOOM_MIN_MOBILE ELSE CANVAS_ZOOM_MIN

IntroZoom(l) == IF IsMobileViewport(l) THEN CANVAS_ZOOM_INTRO_MOBILE ELSE CANVAS_ZOOM_INTRO

DefaultZoom(l) == IF IsMobileViewport(l) THEN CANVAS_ZOOM_DEFAULT_MOBILE ELSE CANVAS_ZOOM_DEFAULT

\* Mutant of ComputePanBounds: no edge padding.
ComputePanBounds_NoPadding(l) ==
    LET halfX   == (Max(0, l.cw - l.vw) \div 2) * PAN_EXPANSION_FACTOR
        centreY == (l.vh - l.ch) \div 2
        halfY   == (Max(0, l.ch - l.vh) \div 2) * PAN_EXPANSION_FACTOR
    IN  [minX |-> -halfX, maxX |-> halfX,
         minY |-> centreY - halfY, maxY |-> centreY + halfY]

\* Mutant of ComputePanBounds: the overflow is not floored at 0.
ComputePanBounds_NoFloor(l) ==
    LET halfX   == ((l.cw - l.vw) \div 2 + EDGE_PADDING) * PAN_EXPANSION_FACTOR
        centreY == (l.vh - l.ch) \div 2
        halfY   == ((l.ch - l.vh) \div 2 + EDGE_PADDING) * PAN_EXPANSION_FACTOR
    IN  [minX |-> -halfX, maxX |-> halfX,
         minY |-> centreY - halfY, maxY |-> centreY + halfY]

\* Mutant of ComputePanBounds: the expansion factor is the maximum zoom of the
\* device class.
ComputePanBounds_DeviceZoom(l) ==
    LET halfX   == ((Max(0, l.cw - l.vw) \div 2 + EDGE_PADDING) * MaxZoom(l)) \div 1000
        centreY == (l.vh - l.ch) \div 2
        halfY   == ((Max(0, l.ch - l.vh) \div 2 + EDGE_PADDING) * MaxZoom(l)) \div 1000
    IN  [minX |-> -halfX, maxX |-> halfX,
         minY |-> centreY - halfY, maxY |-> centreY + halfY]

\* The bounds part of recalcPanBounds.
ComputePanBounds(l) ==
    LET overflowX == Max(0, l.cw - l.vw)
        baseHalfX == overflowX \div 2 + EDGE_PADDING
        halfX     == baseHalfX * PAN_EXPANSION_FACTOR
        centreY   == (l.vh - l.ch) \div 2
        overflowY == Max(0, l.ch - l.vh)
        baseHalfY == overflowY \div 2 + EDGE_PADDING
        halfY     == baseHalfY * PAN_EXPANSION_FACTOR
    IN  [minX |-> -halfX, maxX |-> halfX,
         minY |-> centreY - halfY, maxY |-> centreY + halfY]

CentreY(l) == (l.vh - l.ch) \div 2

\* The position part of recalcPanBounds: the first-load centring, then the clamp.
RecalcPosition(wo, l) ==
    LET b     == ComputePanBounds(l)
        nextY == IF wo.x = 0 /\ wo.y = 0 THEN CentreY(l) ELSE wo.y
    IN  [x |-> Clamp(b.minX, b.maxX, wo.x), y |-> Clamp(b.minY, b.maxY, nextY)]

InBounds(p, b) == b.minX <= p.x /\ p.x <= b.maxX /\ b.minY <= p.y /\ p.y <= b.maxY

----------------------------------------------------------------------------
(* The zoom-stage / active-tile part of the state, as a record, so that    *)
(* the helpers the handlers share can be written once.                     *)

Core == [scale |-> canvasScale, move |-> moveSinceZoom, stage |-> zoomStage,
         active |-> activeTileIndex, sinceActive |-> moveSinceActive]

\* Mutant of SetActiveTile: the distance counter is not reset.
SetActiveTile_KeepDistance(c, index) == [c EXCEPT !.active = index]

\* setActiveTile(index)
SetActiveTile(c, index) == [c EXCEPT !.active = index, !.sinceActive = 0]

\* Mutant of ZoomOutCanvas: the zoom stage is not reset.
ZoomOutCanvas_KeepStage(c) ==
    IF c.scale = CANVAS_ZOOM_DEFAULT
    THEN c
    ELSE SetActiveTile([c EXCEPT !.scale = CANVAS_ZOOM_DEFAULT, !.move = 0], NoTile)

\* Mutant of ZoomOutCanvas: the distance since the zoom is not reset.
ZoomOutCanvas_KeepMove(c) ==
    IF c.scale = CANVAS_ZOOM_DEFAULT
    THEN c
    ELSE SetActiveTile([c EXCEPT !.scale = CANVAS_ZOOM_DEFAULT, !.stage = 0], NoTile)

\* Mutant of ZoomOutCanvas: the active tile is not cleared.
ZoomOutCanvas_KeepActive(c) ==
    IF c.scale = CANVAS_ZOOM_DEFAULT
    THEN c
    ELSE [c EXCEPT !.scale = CANVAS_ZOOM_DEFAULT, !.move = 0, !.stage = 0]

\* zoomOutCanvas()
ZoomOutCanvas(c) ==
    IF c.scale = CANVAS_ZOOM_DEFAULT
    THEN c
    ELSE SetActiveTile([c EXCEPT !.scale = CANVAS_ZOOM_DEFAULT, !.move = 0, !.stage = 0],
                       NoTile)

\* Mutant of StagedZoomOut: the first threshold is compared with > instead of >=.
StagedZoomOut_Strict(c, distance) ==
    IF c.scale > 1000
    THEN LET m == [c EXCEPT !.move = c.move + distance]
         IN  IF m.stage = 1 /\ m.move > FIRST_ZOOM_OUT_THRESHOLD
             THEN SetActiveTile([m EXCEPT !.scale = INTERMEDIATE_CANVAS_ZOOM, !.stage = 2],
                                NoTile)
             ELSE IF m.stage = 2 /\ m.move >= SECOND_ZOOM_OUT_THRESHOLD
                  THEN ZoomOutCanvas(m)
                  ELSE m
    ELSE c

\* Mutant of StagedZoomOut: the second stage of the zoom-out is missing.
StagedZoomOut_NoSecond(c, distance) ==
    IF c.scale > 1000
    THEN LET m == [c EXCEPT !.move = c.move + distance]
         IN  IF m.stage = 1 /\ m.move >= FIRST_ZOOM_OUT_THRESHOLD
             THEN SetActiveTile([m EXCEPT !.scale = INTERMEDIATE_CANVAS_ZOOM, !.stage = 2],
                                NoTile)
             ELSE m
    ELSE c

\* Mutant of StagedZoomOut: the second threshold is tested in the same event.
StagedZoomOut_Cascade(c, distance) ==
    IF c.scale > 1000
    THEN LET m == [c EXCEPT !.move = c.move + distance]
             n == IF m.stage = 1 /\ m.move >= FIRST_ZOOM_OUT_THRESHOLD
                  THEN SetActiveTile([m EXCEPT !.scale = INTERMEDIATE_CANVAS_ZOOM,
                                               !.stage = 2], NoTile)
                  ELSE m
         IN  IF n.stage = 2 /\ n.move >= SECOND_ZOOM_OUT_THRESHOLD
             THEN ZoomOutCanvas(n)
             ELSE n
    ELSE c

\* onChangeX / onChangeY: "Track movement after zoom to trigger staged auto zoom-out."
StagedZoomOut(c, distance) ==
    IF c.scale > 1000
    THEN LET m == [c EXCEPT !.move = c.move + distance]
         IN  IF m.stage = 1 /\ m.move >= FIRST_ZOOM_OUT_THRESHOLD
             THEN SetActiveTile([m EXCEPT !.scale = INTERMEDIATE_CANVAS_ZOOM, !.stage = 2],
                                NoTile)
             ELSE IF m.stage = 2 /\ m.move >= SECOND_ZOOM_OUT_THRESHOLD
                  THEN ZoomOutCanvas(m)
                  ELSE m
    ELSE c

\* onChangeX / onChangeY: "Clear active tile if the user has panned far enough
\* since activation."
ClearActiveAfterPan(c, distance) ==
    IF c.active # NoTile
    THEN LET m == [c EXCEPT !.sinceActive = c.sinceActive + distance]
         IN  IF m.sinceActive >= ACTIVE_TILE_CLEAR_THRESHOLD
             THEN SetActiveTile(m, NoTile)
             ELSE m
    ELSE c

\* The distance bookkeeping of one accepted pan event.
PanBookkeeping(c, distance) == ClearActiveAfterPan(StagedZoomOut(c, distance), distance)

\* onDragStart: currentZoom * 0.95
DragZoomOut(currentZoom) == (currentZoom * 95) \div 100

\* Mutant of WheelScale: the lower limit is not applied.
WheelScale_NoMin(currentScale, w, l) ==
    LET scrollDelta == IF Abs(w.dy) > Abs(w.dx) THEN -w.dy ELSE -w.dx
    IN  Min(MaxZoom(l), currentScale + scrollDelta)

\* onWheel: the clamped new scale for raw deltas (deltaX, deltaY).
WheelScale(currentScale, w, l) ==
    LET scrollDelta == IF Abs(w.dy) > Abs(w.dx) THEN -w.dy ELSE -w.dx
        zoomDelta   == scrollDelta      \* scrollDelta * 0.001, in thousandths
        newScale    == currentScale + zoomDelta
    IN  Max(MinZoom(l), Min(MaxZoom(l), newScale))

\* Mutant of ClickTarget: the displacement is not divided by the scale.
ClickTarget_NoScale(wo, d, scale, b) ==
    [x |-> Clamp(b.minX, b.maxX, wo.x + d.x \div 1000),
     y |-> Clamp(b.minY, b.maxY, wo.y + d.y \div 1000)]

\* handleTileClick: the clamped camera target for a tile whose centre is at
\* screen displacement d (viewport centre minus tile centre, thousandths of px).
ClickTarget(wo, d, scale, b) ==
    LET currentScale == IF scale > 0 THEN scale ELSE 1000
        deltaX == d.x \div currentScale
        deltaY == d.y \div currentScale
    IN  [x |-> Clamp(b.minX, b.maxX, wo.x + deltaX),
         y |-> Clamp(b.minY, b.maxY, wo.y + deltaY)]

\* What getBoundingClientRect reports, relative to the viewport centre, for a
\* tile that is centred at camera offset q, when the canvas is drawn at the
\* given offset and scale (viewport centre minus tile centre, thousandths of px).
ScreenDisplacement(q, wo, scale) ==
    [x |-> (q.x - wo.x) * scale, y |-> (q.y - wo.y) * scale]

SetCore(c) ==
    /\ canvasScale' = c.scale
    /\ moveSinceZoom' = c.move
    /\ zoomStage' = c.stage
    /\ activeTileIndex' = c.active
    /\ moveSinceActive' = c.sinceActive

coreVars == <<canvasScale, moveSinceZoom, zoomStage, activeTileIndex, moveSinceActive>>
cameraVars == <<worldOffset, panBounds, incr, tween>>
dragVars == <<isDragging, dragDistance, zoomBeforeDrag, dragResetTimers>>
panningVars == <<isPanning, panningTimeout>>
introVars == <<isIntroAnimating, introPhase>>
gridVars == <<projects, tiles, activeCategories, tilesWithVisibility>>
controllerVars == <<coreVars, cameraVars, dragVars, panningVars, introVars, pressed, layout>>
tileVars == <<isHovered, pointerOver, shouldPlayVideo>>

----------------------------------------------------------------------------
(* The tile layout: the grid memo, stableHash and tilesWithCategories.     *)
(*                                                                         *)
(* A project is a record: _id is the string as its sequence of UTF-16 code *)
(* units, type is project.type, thumbnailImage and image are the two       *)
(* entries of project.media, mediaType is media.mediaType, videoLink tells *)
(* whether media.video.videoLink is set and playbackId whether             *)
(* media.video.asset.playbackId (an uploaded file) is.  An aspect ratio "w / h", a width factor and  *)
(* a padding percentage are exact fractions <<numerator, denominator>> in  *)
(* lowest terms; dimensions.aspectRatio is in thousandths.                 *)

MIN_PROJECTS_FOR_CANVAS == 100

\* FilterCategory
FilterCategories == {"All", "Photography", "Direction", "Cinematography"}

\* Cap on the length of activeCategories.
MaxActiveCategories == 2

ASPECT_RATIOS == << <<1, 1>>, <<4, 5>>, <<5, 4>>, <<16, 9>> >>

\* A value the code leaves undefined (aspectPadding of a tile without dimensions).
Undefined == <<0, 0>>

\* imageSource.asset.metadata.dimensions, absent or with its three numbers
\* (0 where the number is missing).
NoDimensions == [present |-> FALSE, aspectRatio |-> 0, width |-> 0, height |-> 0]

DimensionsOf(ar, w, h) == [present |-> TRUE, aspectRatio |-> ar, width |-> w, height |-> h]

\* project.media.thumbnailImage / project.media.image, absent or present.
NoImage == [present |-> FALSE, dimensions |-> NoDimensions]

ImageOf(d) == [present |-> TRUE, dimensions |-> d]

\* The project field of a placeholder descriptor (it has none).
NoProject == [_id |-> <<>>, type |-> "", thumbnailImage |-> NoImage, image |-> NoImage,
              mediaType |-> "", videoLink |-> FALSE, playbackId |-> FALSE]

\* The array with the elements of f, a function on 1..n, held as a sequence.
ArrayOf(f) == SubSeq(f, 1, Len(f))

RECURSIVE GCD(_, _)
GCD(a, b) == IF b = 0 THEN a ELSE GCD(b, a % b)

\* The number n / d.
Fraction(n, d) == <<n \div GCD(n, d), d \div GCD(n, d)>>

\* Math.ceil(Math.sqrt(n))
CeilSqrt(n) == CHOOSE c \in 0..n : c * c >= n /\ (c = 0 \/ (c - 1) * (c - 1) < n)

\* Math.ceil(n / d)
CeilDiv(n, d) == (n + d - 1) \div d

\* Mutant of Grid: no minimum tile count.
Grid_NoMinimum(items) ==
    LET totalProjects == Len(items)
    IN  IF totalProjects = 0
        THEN [gridRows |-> 0, gridCols |-> 0, numberOfImages |-> 0]
        ELSE LET effectiveCount == totalProjects
                 cols == CeilSqrt(effectiveCount)
                 rows == CeilDiv(effectiveCount, cols)
             IN  [gridRows |-> rows, gridCols |-> cols, numberOfImages |-> effectiveCount]

\* Mutant of Grid: the number of rows is rounded down.
Grid_FloorRows(items) ==
    LET totalProjects == Len(items)
    IN  IF totalProjects = 0
        THEN [gridRows |-> 0, gridCols |-> 0, numberOfImages |-> 0]
        ELSE LET effectiveCount == Max(totalProjects, MIN_PROJECTS_FOR_CANVAS)
                 cols == CeilSqrt(effectiveCount)
                 rows == effectiveCount \div cols
             IN  [gridRows |-> rows, gridCols |-> cols, numberOfImages |-> effectiveCount]

\* The grid memo: gridRows, gridCols, numberOfImages.
Grid(items) ==
    LET totalProjects == Len(items)
    IN  IF totalProjects = 0
        THEN [gridRows |-> 0, gridCols |-> 0, numberOfImages |-> 0]
        ELSE LET effectiveCount == Max(totalProjects, MIN_PROJECTS_FOR_CANVAS)
                 cols == CeilSqrt(effectiveCount)
                 rows == CeilDiv(effectiveCount, cols)
             IN  [gridRows |-> rows, gridCols |-> cols, numberOfImages |-> effectiveCount]

\* Array.prototype.slice(start, end) for 0 <= start <= end (0-based, end
\* exclusive, both clamped to the length).
Slice(arr, start, end) == SubSeq(arr, Min(start, Len(arr)) + 1, Min(end, Len(arr)))

\* The rows of the render: Array.from({ length: gridRows }, ...), row rowIndex
\* holding tilesWithVisibility.slice(startIndex, endIndex).
RowTiles(items, visible) ==
    LET g == Grid(items)
    IN  [rowIndex \in 0..(g.gridRows - 1) |->
            LET startIndex == rowIndex * g.gridCols
                endIndex   == startIndex + g.gridCols
            IN  Slice(visible, startIndex, endIndex)]

\* One round of stableHash's loop on the 32-bit hash held as two 16-bit
\* halves: hash = (hash << 5) - hash + chr; hash |= 0.
HashStep(h, chr) ==
    LET lo == h.lo * 31 + chr
    IN  [lo |-> lo % 65536, hi |-> (h.hi * 31 + lo \div 65536) % 65536]

RECURSIVE HashLoop(_, _)
HashLoop(value, n) ==
    IF n = 0 THEN [lo |-> 0, hi |-> 0] ELSE HashStep(HashLoop(value, n - 1), value[n])

\* The two halves read as a signed 32-bit integer.
ToInt32(h) == IF h.hi >= 32768 THEN (h.hi - 65536) * 65536 + h.lo ELSE h.hi * 65536 + h.lo

\* stableHash(value)
StableHash(value) == ToInt32(HashLoop(value, Len(value)))

\* Mutant of ShuffledProjects: the list is not sorted.
ShuffledProjects_NoSort(items) ==
    items

\* [...projects].sort((a, b) => stableHash(a._id) - stableHash(b._id)).  The
\* difference of two 32-bit hashes is exact in a JavaScript number, so its
\* sign is the order of the hashes; Array.prototype.sort is stable, so items
\* whose hashes are equal stay in the order of the input.
ShuffledProjects(items) ==
    LET n    == Len(items)
        hash == ArrayOf([i \in 1..n |-> StableHash(items[i]._id)])
        rank == ArrayOf([i \in 1..n |->
                    1 + Cardinality({j \in 1..n : \/ hash[j] < hash[i]
                                                  \/ hash[j] = hash[i] /\ j < i})])
    IN  ArrayOf([k \in 1..n |-> items[CHOOSE i \in 1..n : rank[i] = k]])

\* mapProjectTypeToFilterCategory(type)
MapProjectTypeToFilterCategory(type) ==
    CASE type = "photography"    -> "Photography"
      [] type = "cinematography" -> "Cinematography"
      [] type = "direction"      -> "Direction"
      [] OTHER                   -> "Photography"

\* The project's video is an external link and no file has been uploaded.
IsExternalVideoLink(project) ==
    project.mediaType = "video" /\ project.videoLink /\ ~project.playbackId

\* Mutant of BaseTile: an external video link is laid out as 16:9.
BaseTile_VideoLinkWide(project) ==
    LET category    == MapProjectTypeToFilterCategory(project.type)
        imageSource == IF project.thumbnailImage.present THEN project.thumbnailImage
                                                         ELSE project.image
        dimensions  == imageSource.dimensions
        ar == IF IsExternalVideoLink(project)
              THEN ASPECT_RATIOS[4]
              ELSE IF dimensions.aspectRatio > 0
                   THEN Fraction(dimensions.aspectRatio, 1000)
                   ELSE IF dimensions.width # 0 /\ dimensions.height # 0
                        THEN Fraction(dimensions.width, dimensions.height)
                        ELSE Undefined
    IN  IF ar # Undefined /\ ar[1] > 0
        THEN [category |-> category, aspectRatio |-> ar, project |-> project,
              aspectPadding |-> Fraction(ar[2] * 100, ar[1]), widthFactor |-> ar]
        ELSE [category |-> category, aspectRatio |-> ASPECT_RATIOS[1], project |-> project,
              aspectPadding |-> Undefined, widthFactor |-> <<1, 1>>]

\* One entry of baseTiles.
BaseTile(project) ==
    LET category    == MapProjectTypeToFilterCategory(project.type)
        imageSource == IF project.thumbnailImage.present THEN project.thumbnailImage
                                                         ELSE project.image
        dimensions  == imageSource.dimensions
        ar == IF dimensions.aspectRatio > 0
              THEN Fraction(dimensions.aspectRatio, 1000)
              ELSE IF dimensions.width # 0 /\ dimensions.height # 0
                   THEN Fraction(dimensions.width, dimensions.height)
                   ELSE Undefined
    IN  IF imageSource.present /\ dimensions.present /\ ar # Undefined /\ ar[1] > 0
        THEN [category |-> category, aspectRatio |-> ar, project |-> project,
              aspectPadding |-> Fraction(ar[2] * 100, ar[1]), widthFactor |-> ar]
        ELSE [category |-> category, aspectRatio |-> ASPECT_RATIOS[1], project |-> project,
              aspectPadding |-> Undefined, widthFactor |-> <<1, 1>>]

\* The descriptor pushed for an index from its source entry of baseTiles.
TileFrom(index, source) ==
    [index |-> index, category |-> source.category, aspectRatio |-> source.aspectRatio,
     project |-> source.project, aspectPadding |-> source.aspectPadding,
     widthFactor |-> source.widthFactor]

\* The descriptor of the placeholder branch.
PlaceholderTile(index) ==
    [index |-> index, category |-> "Photography",
     aspectRatio |-> ASPECT_RATIOS[(index % Len(ASPECT_RATIOS)) + 1],
     project |-> NoProject, aspectPadding |-> Undefined, widthFactor |-> <<1, 1>>]

\* shuffledProjects.map(...)
BaseTiles(shuffledProjects) ==
    ArrayOf([k \in 1..Len(shuffledProjects) |-> BaseTile(shuffledProjects[k])])

\* The fill loop, for index from 0 to numberOfImages - 1.
FillTiles(baseTiles, numberOfImages) ==
    ArrayOf([i \in 1..numberOfImages |->
                TileFrom(i - 1, baseTiles[((i - 1) % Len(baseTiles)) + 1])])

\* The tilesWithCategories memo from the projects prop and numberOfImages.
\* Position index + 1 of the sequence is the array's element index.
TilesWithCategories(items, numberOfImages) ==
    IF Len(items) > 0
    THEN FillTiles(BaseTiles(ShuffledProjects(items)), numberOfImages)
    ELSE ArrayOf([i \in 1..numberOfImages |-> PlaceholderTile(i - 1)])

\* array.includes(value)
Includes(array, value) == \E i \in 1..Len(array) : array[i] = value

\* { ...tile, isVisible }
WithVisibility(tile, isVisible) ==
    [index |-> tile.index, category |-> tile.category, aspectRatio |-> tile.aspectRatio,
     project |-> tile.project, aspectPadding |-> tile.aspectPadding,
     widthFactor |-> tile.widthFactor, isVisible |-> isVisible]

\* Mutant of TilesWithVisibility: "All" is treated like any other category.
TilesWithVisibility_NoSentinel(tilesWithCategories, active) ==
    LET showAll == Len(active) = 0
    IN  ArrayOf([i \in 1..Len(tilesWithCategories) |->
            LET tile == tilesWithCategories[i]
            IN  WithVisibility(tile, showAll \/ Includes(active, tile.category))])

\* The tilesWithVisibility memo from tilesWithCategories and activeCategories.
TilesWithVisibility(tilesWithCategories, active) ==
    LET showAll == Len(active) = 0 \/ Includes(active, "All")
    IN  ArrayOf([i \in 1..Len(tilesWithCategories) |->
            LET tile == tilesWithCategories[i]
            IN  WithVisibility(tile, showAll \/ Includes(active, tile.category))])

\* One render: the two memos, evaluated in order.
BuildTiles(items) == TilesWithCategories(items, Grid(items).numberOfImages)

\* The projects the model renders.  The ids "Aa" and "BB" have the same hash
\* (2112); the hash of "zzzzzz" wraps to a negative number.
\* ProjectBB is a video given as an external link, with no uploaded file;
\* ProjectZz is an uploaded video.
ProjectAa == [_id |-> <<65, 97>>, type |-> "photography",
              thumbnailImage |-> NoImage, image |-> ImageOf(DimensionsOf(1500, 3000, 2000)),
              mediaType |-> "image", videoLink |-> FALSE, playbackId |-> FALSE]
ProjectBB == [_id |-> <<66, 66>>, type |-> "cinematography",
              thumbnailImage |-> ImageOf(DimensionsOf(0, 800, 1000)),
              image |-> ImageOf(DimensionsOf(1000, 500, 500)),
              mediaType |-> "video", videoLink |-> TRUE, playbackId |-> FALSE]
ProjectZz == [_id |-> <<122, 122, 122, 122, 122, 122>>, type |-> "direction",
              thumbnailImage |-> NoImage, image |-> ImageOf(NoDimensions),
              mediaType |-> "video", videoLink |-> FALSE, playbackId |-> TRUE]
ProjectC == [_id |-> <<67>>, type |-> "commercial",
             thumbnailImage |-> NoImage, image |-> NoImage,
             mediaType |-> "image", videoLink |-> FALSE, playbackId |-> FALSE]

ProjectItems == {ProjectAa, ProjectBB, ProjectZz, ProjectC}

ProjectTypes == <<"photography", "cinematography", "direction">>

\* A list longer than the minimum tile count, not in hash order.
LongLength == MIN_PROJECTS_FOR_CANVAS + 1

LongItem(i) ==
    [_id |-> <<48 + (i % 10), 48 + (i \div 10)>>, type |-> ProjectTypes[(i % 3) + 1],
     thumbnailImage |-> NoImage,
     image |-> IF i % 2 = 0 THEN ImageOf(DimensionsOf(0, 4, 5)) ELSE NoImage,
     mediaType |-> IF i % 5 = 0 THEN "video" ELSE "image",
     videoLink |-> (i % 5 = 0), playbackId |-> (i % 10 = 0)]

LongList == [i \in 1..LongLength |-> LongItem(i)]

\* Lists of every length up to MaxSmallGrid, and from just below the minimum
\* tile count up to MaxGridItems (grids of 10, 11 and 12 columns).
MaxSmallGrid == 25
MaxGridItems == 124
GridLengths == (1..MaxSmallGrid) \cup ((MIN_PROJECTS_FOR_CANVAS - 2)..MaxGridItems)
GridLists == { [i \in 1..n |-> LongItem(i)] : n \in GridLengths }

\* Every list of distinct items of ProjectItems, the empty one included.
ShortLists ==
    { p \in UNION { [1..n -> ProjectItems] : n \in 0..Cardinality(ProjectItems) } :
        \A i, j \in DOMAIN p : i # j => p[i] # p[j] }

ProjectLists == ShortLists \cup {LongList}

----------------------------------------------------------------------------
(* The tile component.                                                     *)

\* isVideo of the tile with index t: media?.mediaType === "video"
IsVideo(ts, t) == (t + 1) \in DOMAIN ts /\ ts[t + 1].project.mediaType = "video"

\* The tiles rendered with shouldPlayVideo = true:
\* isVideo && (isActive || isHovered)
PlayingTiles(ts, active, hovered) ==
    { t \in 0..(Len(ts) - 1) : IsVideo(ts, t) /\ (t = active \/ t \in hovered) }

\* The effect on [isActive]: the tile that stops being active clears its
\* hover state.
HoverAfterEffect(hovered, before, after) ==
    IF before # after THEN hovered \ {before} ELSE hovered

\* The render of the tiles after a handler of the controller, and the
\* effect that follows it.
TileRender ==
    /\ isHovered' = HoverAfterEffect(isHovered, activeTileIndex, activeTileIndex')
    /\ pointerOver' = pointerOver
    /\ shouldPlayVideo' = PlayingTiles(tiles', activeTileIndex', isHovered')

\* The render with the projects prop p: a tile keeps its state while its key
\* row-<rowIndex>-tile-<index> is rendered, that is, while the number of
\* columns is the same and the index exists.
TileMount(p) ==
    LET kept == IF Grid(p).gridCols = Grid(projects).gridCols
                THEN 0..(Grid(p).numberOfImages - 1) ELSE {}
    IN  /\ isHovered' = isHovered \cap kept
        /\ pointerOver' = IF pointerOver \in kept THEN pointerOver ELSE NoTile
        /\ shouldPlayVideo' = PlayingTiles(tiles', activeTileIndex', isHovered')

----------------------------------------------------------------------------
(* Initial state: after mount and the mount effects (the intro zoom is     *)
(* applied, recalcPanBounds has run once, the quickTo tweens are created). *)

\* ls: the measurements the page can mount with; ps: the lists it can be given.
InitState(ls, ps) ==
    /\ layout \in ls
    /\ projects \in ps
    /\ tiles = BuildTiles(projects)
    /\ activeCategories = <<>>
    /\ tilesWithVisibility = TilesWithVisibility(tiles, activeCategories)
    /\ isHovered = {}
    /\ pointerOver = NoTile
    /\ shouldPlayVideo = {}
    /\ canvasScale = IntroZoom(layout)
    /\ moveSinceZoom = 0
    /\ zoomStage = 0
    /\ isDragging = FALSE
    /\ dragDistance = 0
    /\ zoomBeforeDrag = 1000
    /\ activeTileIndex = NoTile
    /\ moveSinceActive = 0
    /\ panBounds = ComputePanBounds(layout)
    /\ worldOffset = RecalcPosition([x |-> 0, y |-> 0], layout)
    /\ incr = RecalcPosition([x |-> 0, y |-> 0], layout)
    /\ tween = [x |-> [active |-> FALSE, to |-> 0], y |-> [active |-> FALSE, to |-> 0]]
    /\ isPanning = FALSE
    /\ panningTimeout = 0
    /\ isIntroAnimating = TRUE
    /\ introPhase = "loading"
    /\ pressed = FALSE
    /\ dragResetTimers = 0

\* The runs that exercise the controller hold no project list: the handlers
\* read no descriptor, only the index and the rect of the clicked element.
InitWith(ls) == InitState(ls, {<<>>})

Init == InitWith(Layouts)

InitCamera == InitWith(CameraLayouts)

----------------------------------------------------------------------------
(* Actions.                                                                *)

\* Mutant of MarkPanning: the pending timeout is not cleared.
MarkPanning_NoCancel ==
    /\ isPanning' = TRUE
    /\ panningTimeout' = panningTimeout + 1

\* markPanning(): the pending timeout, if any, is cleared and a new one is set.
MarkPanning ==
    /\ isPanning' = TRUE
    /\ panningTimeout' = 1

\* The debounce timeout set by markPanning fires.
PanningTimeoutFires ==
    /\ panningTimeout > 0
    /\ isPanning' = FALSE
    /\ panningTimeout' = panningTimeout - 1
    /\ UNCHANGED <<coreVars, cameraVars, dragVars, introVars, pressed, layout, gridVars, tileVars>>

\* Mutant of Resize: the stored bounds are not recomputed.
Resize_KeepBounds(l) ==
    /\ layout' = l
    /\ worldOffset' = [x |-> Clamp(panBounds.minX, panBounds.maxX, worldOffset.x),
                       y |-> Clamp(panBounds.minY, panBounds.maxY, worldOffset.y)]
    /\ incr' = worldOffset'
    /\ UNCHANGED <<panBounds, tween, coreVars, dragVars, panningVars, introVars, pressed, gridVars, tileVars>>

\* recalcPanBounds(), from the resize listener; l is what the DOM now measures.
Resize(l) ==
    /\ layout' = l
    /\ panBounds' = ComputePanBounds(l)
    /\ worldOffset' = RecalcPosition(worldOffset, l)
    /\ incr' = RecalcPosition(worldOffset, l)
    /\ UNCHANGED <<tween, coreVars, dragVars, panningVars, introVars, pressed, gridVars, tileVars>>

\* The measurements change without a window resize event (content reflows,
\* the mobile browser chrome hides): nothing in the controller runs.
Reflow(l) ==
    /\ layout' = l
    /\ UNCHANGED <<coreVars, cameraVars, dragVars, panningVars, introVars, pressed, gridVars, tileVars>>

\* One animation frame of the quickTo tweens: every running tween writes its
\* end value into worldOffset and stops.
Tick ==
    /\ tween.x.active \/ tween.y.active
    /\ worldOffset' = [x |-> IF tween.x.active THEN tween.x.to ELSE worldOffset.x,
                       y |-> IF tween.y.active THEN tween.y.to ELSE worldOffset.y]
    /\ tween' = [x |-> [tween.x EXCEPT !.active = FALSE],
                 y |-> [tween.y EXCEPT !.active = FALSE]]
    /\ UNCHANGED <<panBounds, incr, coreVars, dragVars, panningVars, introVars,
                   pressed, layout, gridVars, tileVars>>

\* Observer onDragStart
OnDragStart ==
    /\ ~pressed
    /\ pressed' = TRUE
    /\ IF isIntroAnimating
       THEN UNCHANGED <<coreVars, dragVars>>
       ELSE /\ isDragging' = TRUE
            /\ dragDistance' = 0
            /\ zoomBeforeDrag' = canvasScale
            /\ canvasScale' = IF canvasScale <= 1000 THEN DragZoomOut(canvasScale)
                                                     ELSE canvasScale
            /\ UNCHANGED <<moveSinceZoom, zoomStage, activeTileIndex, moveSinceActive,
                           dragResetTimers>>
    /\ UNCHANGED <<cameraVars, panningVars, introVars, layout, gridVars, tileVars>>

\* Mutant of OnDragEnd: the scale is not restored.
OnDragEnd_NoRestore ==
    /\ pressed
    /\ dragResetTimers < MaxPendingResets
    /\ pressed' = FALSE
    /\ dragResetTimers' = dragResetTimers + 1
    /\ UNCHANGED <<coreVars, isDragging, dragDistance, zoomBeforeDrag,
                   cameraVars, panningVars, introVars, layout, gridVars, tileVars>>

\* Observer onDragEnd
OnDragEnd ==
    /\ pressed
    /\ dragResetTimers < MaxPendingResets
    /\ pressed' = FALSE
    /\ LET restoreZoom   == zoomBeforeDrag
           wasAtBaseZoom == restoreZoom <= 1000
       IN  canvasScale' = IF wasAtBaseZoom /\ canvasScale < restoreZoom
                          THEN restoreZoom ELSE canvasScale
    /\ dragResetTimers' = dragResetTimers + 1
    /\ UNCHANGED <<moveSinceZoom, zoomStage, activeTileIndex, moveSinceActive,
                   isDragging, dragDistance, zoomBeforeDrag,
                   cameraVars, panningVars, introVars, layout, gridVars, tileVars>>

\* The 50 ms timeout scheduled by onDragEnd fires.
DragResetFires ==
    /\ dragResetTimers > 0
    /\ dragResetTimers' = dragResetTimers - 1
    /\ isDragging' = FALSE
    /\ dragDistance' = 0
    /\ UNCHANGED <<zoomBeforeDrag, coreVars, cameraVars, panningVars, introVars,
                   pressed, layout, gridVars, tileVars>>

\* Mutant of OnWheel: the panning flag is raised before the no-op check.
OnWheel_AlwaysMarks(w) ==
    LET newScale == WheelScale(canvasScale, w, layout)
    IN  IF isIntroAnimating
        THEN UNCHANGED vars
        ELSE /\ canvasScale' = newScale
             /\ MarkPanning
             /\ UNCHANGED <<moveSinceZoom, zoomStage, activeTileIndex, moveSinceActive,
                            cameraVars, dragVars, introVars, pressed, layout, gridVars, tileVars>>

\* Mutant of OnWheel: the wheel delta is counted as pan distance.
OnWheel_Accumulates(w) ==
    LET newScale == WheelScale(canvasScale, w, layout)
        distance == Max(Abs(w.dx), Abs(w.dy))
    IN  IF isIntroAnimating \/ newScale = canvasScale
        THEN UNCHANGED vars
        ELSE /\ SetCore([PanBookkeeping(Core, distance) EXCEPT !.scale = newScale])
             /\ MarkPanning
             /\ UNCHANGED <<cameraVars, dragVars, introVars, pressed, layout, gridVars>>
             /\ TileRender

\* Observer onWheel; the observer's onChangeX / onChangeY calls for the same
\* wheel event return at their event-type check.
OnWheel(w) ==
    LET newScale == WheelScale(canvasScale, w, layout)
    IN  IF isIntroAnimating \/ newScale = canvasScale
        THEN UNCHANGED vars
        ELSE /\ canvasScale' = newScale
             /\ MarkPanning
             /\ UNCHANGED <<moveSinceZoom, zoomStage, activeTileIndex, moveSinceActive,
                            cameraVars, dragVars, introVars, pressed, layout, gridVars, tileVars>>

\* Observer onChangeX for a drag/touch move with raw delta deltaX
OnChangeX(deltaX) ==
    /\ pressed
    /\ IF isIntroAnimating
       THEN UNCHANGED vars
       ELSE LET delta    == deltaX * 2 * PAN_SENSITIVITY
                nextX    == Clamp(panBounds.minX, panBounds.maxX, incr.x + delta)
                distance == Abs(deltaX)
            IN  /\ MarkPanning
                /\ incr' = [incr EXCEPT !.x = nextX]
                /\ tween' = [tween EXCEPT !.x = [active |-> TRUE, to |-> nextX]]
                /\ dragDistance' = dragDistance + distance
                /\ SetCore(PanBookkeeping(Core, distance))
                /\ UNCHANGED <<worldOffset, panBounds, isDragging, zoomBeforeDrag,
                               dragResetTimers, introVars, pressed, layout, gridVars>>
                /\ TileRender

\* Observer onChangeY for a drag/touch move with raw delta deltaY
OnChangeY(deltaY) ==
    /\ pressed
    /\ IF isIntroAnimating
       THEN UNCHANGED vars
       ELSE LET delta    == deltaY * 2 * PAN_SENSITIVITY
                nextY    == Clamp(panBounds.minY, panBounds.maxY, incr.y + delta)
                distance == Abs(deltaY)
            IN  /\ MarkPanning
                /\ incr' = [incr EXCEPT !.y = nextY]
                /\ tween' = [tween EXCEPT !.y = [active |-> TRUE, to |-> nextY]]
                /\ dragDistance' = dragDistance + distance
                /\ SetCore(PanBookkeeping(Core, distance))
                /\ UNCHANGED <<worldOffset, panBounds, isDragging, zoomBeforeDrag,
                               dragResetTimers, introVars, pressed, layout, gridVars>>
                /\ TileRender

\* handleTileClick(event): the centring and zoom-in, after the drag-tail check;
\* d is the screen displacement of the clicked tile's rect.
HandleTileClick(c, d) ==
    IF isDragging /\ dragDistance >= TAP_DISTANCE
    THEN /\ SetCore(c)
         /\ UNCHANGED <<incr, tween>>
    ELSE LET target == ClickTarget(worldOffset, d, canvasScale, panBounds)
         IN  /\ incr' = target
             /\ tween' = [x |-> [active |-> TRUE, to |-> target.x],
                          y |-> [active |-> TRUE, to |-> target.y]]
             /\ SetCore([c EXCEPT !.scale = MaxZoom(layout), !.move = 0, !.stage = 1])

\* Mutant of OnTileClick: the toggle zooms out but leaves the tile active.
OnTileClick_ToggleKeepsActive(k, d) ==
    /\ ~pressed
    /\ IF isIntroAnimating
       THEN UNCHANGED vars
       ELSE /\ IF k = activeTileIndex /\ canvasScale > 1000
               THEN /\ SetCore([Core EXCEPT !.scale = CANVAS_ZOOM_DEFAULT,
                                            !.move = 0, !.stage = 0])
                    /\ UNCHANGED <<incr, tween>>
               ELSE HandleTileClick(SetActiveTile(Core, k), d)
            /\ UNCHANGED <<worldOffset, panBounds, dragVars, panningVars, introVars,
                           pressed, layout, gridVars>>
            /\ TileRender

\* Mutant of OnTileClick: a click on the active tile is handled like any other
\* click (no toggle).
OnTileClick_NoToggle(k, d) ==
    /\ ~pressed
    /\ IF isIntroAnimating
       THEN UNCHANGED vars
       ELSE /\ HandleTileClick(SetActiveTile(Core, k), d)
            /\ UNCHANGED <<worldOffset, panBounds, dragVars, panningVars, introVars,
                           pressed, layout, gridVars>>
            /\ TileRender

\* Mutant of OnTileClick: the intro lock is not consulted.
OnTileClick_NoIntroGuard(k, d) ==
    /\ ~pressed
    /\ IF k = activeTileIndex /\ canvasScale > 1000
       THEN /\ SetCore(ZoomOutCanvas(SetActiveTile(Core, NoTile)))
            /\ UNCHANGED <<incr, tween>>
       ELSE HandleTileClick(SetActiveTile(Core, k), d)
    /\ UNCHANGED <<worldOffset, panBounds, dragVars, panningVars, introVars,
                   pressed, layout, gridVars>>
    /\ TileRender

\* handleTileClickWrapper(event, tileIndex); d is the screen displacement of
\* the clicked tile's rect (event.currentTarget.getBoundingClientRect()).
OnTileClick(k, d) ==
    /\ ~pressed
    /\ IF isIntroAnimating
       THEN UNCHANGED vars
       ELSE /\ IF k = activeTileIndex /\ canvasScale > 1000
               THEN /\ SetCore(ZoomOutCanvas(SetActiveTile(Core, NoTile)))
                    /\ UNCHANGED <<incr, tween>>
               ELSE HandleTileClick(SetActiveTile(Core, k), d)
            /\ UNCHANGED <<worldOffset, panBounds, dragVars, panningVars, introVars,
                           pressed, layout, gridVars>>
            /\ TileRender

\* Mutant of SetProjects: the hash ordering is applied or not, by chance.
SetProjects_Unstable(p) ==
    /\ projects' = p
    /\ tiles' \in {BuildTiles(p), IF p = <<>> THEN <<>>
                                   ELSE FillTiles(BaseTiles(p), Grid(p).numberOfImages)}
    /\ tilesWithVisibility' = TilesWithVisibility(tiles', activeCategories)
    /\ UNCHANGED <<activeCategories, controllerVars>>
    /\ TileMount(p)

\* A render with the projects prop p (the same list again, or another one).
SetProjects(p) ==
    /\ projects' = p
    /\ tiles' = BuildTiles(p)
    /\ tilesWithVisibility' = TilesWithVisibility(tiles', activeCategories)
    /\ UNCHANGED <<activeCategories, controllerVars>>
    /\ TileMount(p)

\* The render after the filter context has set activeCategories to next.
FilterChanges(next) ==
    /\ activeCategories' = next
    /\ tilesWithVisibility' = TilesWithVisibility(tiles, next)
    /\ UNCHANGED <<projects, tiles, controllerVars, tileVars>>

\* toggleCategory(category) of the filter context
ToggleCategory(category) ==
    /\ Includes(activeCategories, category) \/ Len(activeCategories) < MaxActiveCategories
    /\ FilterChanges(IF Includes(activeCategories, category)
                     THEN SelectSeq(activeCategories, LAMBDA c : c # category)
                     ELSE Append(activeCategories, category))

\* setActiveCategories([category]), the header's filter menu
SelectCategory(category) == FilterChanges(<<category>>)

\* onMouseEnter of tile t: the pointer comes over a tile that takes pointer
\* events (pointer-events is none on a tile that is not visible).
MouseEnter(t) ==
    /\ pointerOver = NoTile
    /\ (t + 1) \in DOMAIN tilesWithVisibility
    /\ tilesWithVisibility[t + 1].isVisible
    /\ pointerOver' = t
    /\ isHovered' = isHovered \cup {t}
    /\ shouldPlayVideo' = PlayingTiles(tiles, activeTileIndex, isHovered')
    /\ UNCHANGED <<controllerVars, gridVars>>

\* Mutant of MouseLeave: the hover state is cleared on an active tile too.
MouseLeave_Always ==
    /\ pointerOver # NoTile
    /\ pointerOver' = NoTile
    /\ isHovered' = isHovered \ {pointerOver}
    /\ shouldPlayVideo' = PlayingTiles(tiles, activeTileIndex, isHovered')
    /\ UNCHANGED <<controllerVars, gridVars>>

\* onMouseLeave of the tile the pointer is over
MouseLeave ==
    /\ pointerOver # NoTile
    /\ pointerOver' = NoTile
    /\ isHovered' = IF pointerOver # activeTileIndex
                    THEN isHovered \ {pointerOver} ELSE isHovered
    /\ shouldPlayVideo' = PlayingTiles(tiles, activeTileIndex, isHovered')
    /\ UNCHANGED <<controllerVars, gridVars>>

\* The loading overlay has dismissed: handleLoadingComplete starts the intro tween.
LoadingComplete ==
    /\ introPhase = "loading"
    /\ introPhase' = "animating"
    /\ isIntroAnimating' = TRUE
    /\ UNCHANGED <<coreVars, cameraVars, dragVars, panningVars, pressed, layout, gridVars, tileVars>>

\* Mutant of IntroComplete: the pan bounds are not recomputed.
IntroComplete_StaleBounds ==
    /\ introPhase = "animating"
    /\ introPhase' = "done"
    /\ canvasScale' = DefaultZoom(layout)
    /\ moveSinceZoom' = 0
    /\ zoomStage' = 0
    /\ isIntroAnimating' = FALSE
    /\ worldOffset' = [x |-> 0, y |-> 0]
    /\ incr' = [x |-> 0, y |-> 0]
    /\ UNCHANGED <<panBounds, activeTileIndex, moveSinceActive, tween, dragVars,
                   panningVars, pressed, layout, gridVars, tileVars>>

\* onComplete of the intro tween.
IntroComplete ==
    /\ introPhase = "animating"
    /\ introPhase' = "done"
    /\ canvasScale' = DefaultZoom(layout)
    /\ moveSinceZoom' = 0
    /\ zoomStage' = 0
    /\ isIntroAnimating' = FALSE
    /\ panBounds' = ComputePanBounds(layout)
    /\ worldOffset' = RecalcPosition([x |-> 0, y |-> 0], layout)
    /\ incr' = RecalcPosition([x |-> 0, y |-> 0], layout)
    /\ UNCHANGED <<activeTileIndex, moveSinceActive, tween, dragVars, panningVars,
                   pressed, layout, gridVars, tileVars>>

----------------------------------------------------------------------------
(* The environment.                                                        *)

\* Both quickTo tweens have finished.
AtRest == ~tween.x.active /\ ~tween.y.active

\* Caps on the two counters the code lets grow without bound.
PanAllowedTo(d, cap) ==
    /\ dragDistance + Abs(d) <= MaxDragDistance
    /\ canvasScale > 1000 => moveSinceZoom + Abs(d) <= cap

PanAllowed(d) == PanAllowedTo(d, MaxMoveSinceZoom)

\* Spec: gestures arrive while the camera is at rest (coarse frames); resizes
\* and timers arrive at any time, also while a tween is in flight.
Next ==
    \/ PanningTimeoutFires
    \/ \E l \in Layouts : Resize(l)
    \/ Tick
    \/ AtRest /\ OnDragStart
    \/ AtRest /\ OnDragEnd
    \/ DragResetFires
    \/ \E w \in WheelDeltas : AtRest /\ OnWheel(w)
    \/ \E d \in PanDeltasX : AtRest /\ PanAllowed(d) /\ OnChangeX(d)
    \/ \E d \in PanDeltasY : AtRest /\ PanAllowed(d) /\ OnChangeY(d)
    \/ \E k \in Tiles, q \in TileCentres :
          AtRest /\ OnTileClick(k, ScreenDisplacement(q, worldOffset, canvasScale))
    \/ LoadingComplete
    \/ IntroComplete

Spec == Init /\ [][Next]_vars

\* SpecCamera: every event may arrive while a tween is in flight.
NextCamera ==
    \/ PanningTimeoutFires
    \/ \E l \in CameraLayouts : Resize(l)
    \/ Tick
    \/ OnDragStart
    \/ OnDragEnd
    \/ DragResetFires
    \/ \E w \in CameraWheelDeltas : OnWheel(w)
    \/ \E d \in CameraPanDeltasX : PanAllowedTo(d, CameraMaxMove) /\ OnChangeX(d)
    \/ \E d \in CameraPanDeltasY : PanAllowedTo(d, CameraMaxMove) /\ OnChangeY(d)
    \/ \E k \in Tiles, q \in CameraTileCentres :
          OnTileClick(k, ScreenDisplacement(q, worldOffset, canvasScale))
    \/ LoadingComplete
    \/ IntroComplete

SpecCamera == InitCamera /\ [][NextCamera]_vars

\* SpecLatch: as Spec, with pans shorter than the active-tile threshold.
NextLatch ==
    \/ PanningTimeoutFires
    \/ \E l \in Layouts : Resize(l)
    \/ Tick
    \/ AtRest /\ OnDragStart
    \/ AtRest /\ OnDragEnd
    \/ DragResetFires
    \/ \E w \in WheelDeltas : AtRest /\ OnWheel(w)
    \/ \E d \in LatchPanDeltasX : AtRest /\ PanAllowedTo(d, LatchMaxMove) /\ OnChangeX(d)
    \/ \E d \in LatchPanDeltasY : AtRest /\ PanAllowedTo(d, LatchMaxMove) /\ OnChangeY(d)
    \/ \E k \in Tiles, q \in TileCentres :
          AtRest /\ OnTileClick(k, ScreenDisplacement(q, worldOffset, canvasScale))
    \/ LoadingComplete
    \/ IntroComplete

SpecLatch == Init /\ [][NextLatch]_vars

\* SpecIntro: as Spec, with layouts whose pan bounds differ and with
\* measurements that can change without a resize event, so that the bounds
\* held by the controller can be stale.
NextIntro ==
    \/ PanningTimeoutFires
    \/ \E l \in CameraLayouts : Resize(l)
    \/ \E l \in CameraLayouts : Reflow(l)
    \/ Tick
    \/ AtRest /\ OnDragStart
    \/ AtRest /\ OnDragEnd
    \/ DragResetFires
    \/ \E w \in CameraWheelDeltas : AtRest /\ OnWheel(w)
    \/ \E d \in CameraPanDeltasX : AtRest /\ PanAllowedTo(d, CameraMaxMove) /\ OnChangeX(d)
    \/ \E d \in CameraPanDeltasY : AtRest /\ PanAllowedTo(d, CameraMaxMove) /\ OnChangeY(d)
    \/ \E k \in Tiles, q \in CameraTileCentres :
          AtRest /\ OnTileClick(k, ScreenDisplacement(q, worldOffset, canvasScale))
    \/ LoadingComplete
    \/ IntroComplete

SpecIntro == InitCamera /\ [][NextIntro]_vars

\* SpecStage: as Spec, with a pan event longer than the second threshold.
StagePanAllowed(d) ==
    /\ dragDistance + Abs(d) <= StageMaxDrag
    /\ canvasScale > 1000 => moveSinceZoom + Abs(d) <= StageMaxMove

NextStage ==
    \/ PanningTimeoutFires
    \/ \E l \in Layouts : Resize(l)
    \/ Tick
    \/ AtRest /\ OnDragStart
    \/ AtRest /\ OnDragEnd
    \/ DragResetFires
    \/ \E w \in WheelDeltas : AtRest /\ OnWheel(w)
    \/ \E d \in StagePanDeltasX : AtRest /\ StagePanAllowed(d) /\ OnChangeX(d)
    \/ \E d \in StagePanDeltasY : AtRest /\ StagePanAllowed(d) /\ OnChangeY(d)
    \/ \E k \in Tiles, q \in TileCentres :
          AtRest /\ OnTileClick(k, ScreenDisplacement(q, worldOffset, canvasScale))
    \/ LoadingComplete
    \/ IntroComplete

SpecStage == Init /\ [][NextStage]_vars

\* SpecWheel: as SpecStage, with the wheel of StageWheelDeltas.
NextWheel ==
    \/ PanningTimeoutFires
    \/ \E l \in Layouts : Resize(l)
    \/ Tick
    \/ AtRest /\ OnDragStart
    \/ AtRest /\ OnDragEnd
    \/ DragResetFires
    \/ \E w \in StageWheelDeltas : AtRest /\ OnWheel(w)
    \/ \E d \in StagePanDeltasX : AtRest /\ StagePanAllowed(d) /\ OnChangeX(d)
    \/ \E d \in StagePanDeltasY : AtRest /\ StagePanAllowed(d) /\ OnChangeY(d)
    \/ \E k \in Tiles, q \in TileCentres :
          AtRest /\ OnTileClick(k, ScreenDisplacement(q, worldOffset, canvasScale))
    \/ LoadingComplete
    \/ IntroComplete

SpecWheel == Init /\ [][NextWheel]_vars

\* SpecHover: the pointer enters and leaves the tiles of a list with a video
\* and an image; a click goes to the tile the pointer is over; pans shorter
\* and longer than the active-tile threshold.
HoverList == <<ProjectBB, ProjectAa>>

InitHover == InitState({Desktop}, {HoverList})

NextHover ==
    \/ PanningTimeoutFires
    \/ Tick
    \/ AtRest /\ OnDragStart
    \/ AtRest /\ OnDragEnd
    \/ DragResetFires
    \/ \E d \in LatchPanDeltasX : AtRest /\ PanAllowedTo(d, LatchMaxMove) /\ OnChangeX(d)
    \/ \E d \in LatchPanDeltasY : AtRest /\ PanAllowedTo(d, LatchMaxMove) /\ OnChangeY(d)
    \/ \E k \in Tiles, q \in TileCentres :
          AtRest /\ pointerOver = k
                 /\ OnTileClick(k, ScreenDisplacement(q, worldOffset, canvasScale))
    \/ \E t \in Tiles : MouseEnter(t)
    \/ MouseLeave
    \/ LoadingComplete
    \/ IntroComplete

SpecHover == InitHover /\ [][NextHover]_vars

\* SpecBounds: recalcPanBounds applied to every combination of sizes.
InitBounds == InitWith(BoundsLayouts)

NextBounds == \E l \in BoundsLayouts : Resize(l)

SpecBounds == InitBounds /\ [][NextBounds]_vars

\* SpecTiles: the page, mounted without projects, renders with every list of
\* ProjectLists, on either device class.
InitTiles == InitState(Layouts, {<<>>})

NextTiles ==
    \/ \E p \in ProjectLists : SetProjects(p)
    \/ \E l \in Layouts : Resize(l)

SpecTiles == InitTiles /\ [][NextTiles]_vars

\* SpecGrid: the page renders with the lists of GridLists.
NextGrid ==
    \/ \E p \in GridLists : SetProjects(p)
    \/ \E l \in Layouts : Resize(l)

SpecGrid == InitTiles /\ [][NextGrid]_vars

\* SpecFilter: the filter is toggled and selected over the layouts of
\* FilterLists.
FilterLists ==
    { <<>>, <<ProjectAa>>, <<ProjectBB>>, <<ProjectAa, ProjectBB>>, <<ProjectZz, ProjectC>>,
      <<ProjectAa, ProjectBB, ProjectZz>>, <<ProjectC, ProjectBB, ProjectZz, ProjectAa>> }

NextFilter ==
    \/ \E p \in FilterLists : SetProjects(p)
    \/ \E c \in FilterCategories : ToggleCategory(c)
    \/ \E c \in FilterCategories : SelectCategory(c)

SpecFilter == InitTiles /\ [][NextFilter]_vars

----------------------------------------------------------------------------
(* Sanity of the encoding.                                                 *)

TypeOK ==
    /\ zoomStage \in {0, 1, 2}
    /\ activeTileIndex \in Tiles \cup {NoTile}
    /\ moveSinceZoom >= 0 /\ moveSinceActive >= 0 /\ dragDistance >= 0
    /\ panningTimeout \in Nat

\* The 5% drag zoom-out is exact in thousandths wherever it is applied.
DragZoomExact == (~pressed /\ canvasScale <= 1000) => (canvasScale * 95) % 100 = 0

----------------------------------------------------------------------------
(* Step predicates used by the properties below.                           *)

\* The step is a drag/touch pan event of the given distance that the handler
\* accepted (it arrived after the intro lock was released).
AcceptedPan(distance) ==
    /\ ~isIntroAnimating
    /\ \E d \in AllPanDeltas : Abs(d) = distance /\ (OnChangeX(d) \/ OnChangeY(d))

PanDistances == { Abs(d) : d \in AllPanDeltas }

\* The step is a click on tile k that reaches the handler.
ClickOn(k) ==
    /\ ~isIntroAnimating
    /\ \E q \in AllTileCentres :
          OnTileClick(k, ScreenDisplacement(q, worldOffset, canvasScale))

\* A click on the active tile while zoomed in.
IsReClick(k) == k = activeTileIndex /\ canvasScale > 1000

\* The step is one of the observer's gesture callbacks.
GestureCallback ==
    \/ OnDragStart
    \/ OnDragEnd
    \/ \E w \in AllWheelDeltas : OnWheel(w)
    \/ \E d \in AllPanDeltas : OnChangeX(d) \/ OnChangeY(d)

\* A click that handleTileClick drops as the tail of a drag.
IsDragTail == isDragging /\ dragDistance >= TAP_DISTANCE

----------------------------------------------------------------------------
(* Properties.                                                             *)

\* C1: in every reachable state the smoothed worldOffset lies within the
\* panBounds currently in force, also when a resize recomputes the bounds
\* while a pan or centring tween is still in flight.
C1_BoundsContainment == InBounds(worldOffset, panBounds)

\* C2: an accepted pan event adds the (doubled) delta to the incremental
\* target of its axis, hands the clamped target to the smoother and does not
\* write worldOffset; and after every step (pan, tile click, bounds recompute
\* included) the incremental target lies within the pan bounds in force.
C2_PanStep ==
    /\ \A d \in AllPanDeltas :
          (~isIntroAnimating /\ OnChangeX(d)) =>
              /\ worldOffset' = worldOffset
              /\ incr'.y = incr.y
              /\ incr'.x = Max(panBounds.minX, Min(panBounds.maxX, incr.x + 2 * d))
              /\ tween'.x.active /\ tween'.x.to = incr'.x
    /\ \A d \in AllPanDeltas :
          (~isIntroAnimating /\ OnChangeY(d)) =>
              /\ worldOffset' = worldOffset
              /\ incr'.x = incr.x
              /\ incr'.y = Max(panBounds.minY, Min(panBounds.maxY, incr.y + 2 * d))
              /\ tween'.y.active /\ tween'.y.to = incr'.y
    /\ panBounds'.minX <= incr'.x /\ incr'.x <= panBounds'.maxX
    /\ panBounds'.minY <= incr'.y /\ incr'.y <= panBounds'.maxY

C2_TargetClamped == [][C2_PanStep]_vars

\* C2 witness: a pan has pushed the target onto the edge of the bounds; the
\* clamped target is with the smoother and worldOffset has not moved yet.
C2_Witness ==
    /\ pressed /\ ~isIntroAnimating
    /\ incr.x = panBounds.minX
    /\ tween.x.active /\ tween.x.to = incr.x
    /\ worldOffset.x # incr.x

\* C3: once the intro animation has completed, the scale is within
\* [ZOOM_MIN, ZOOM_MAX] of the device class in every reachable state.
C3_ScaleInRange ==
    introPhase = "done" =>
        /\ (IF layout.vw <= 768 THEN CANVAS_ZOOM_MIN_MOBILE ELSE CANVAS_ZOOM_MIN) <= canvasScale
        /\ canvasScale <= (IF layout.vw <= 768 THEN CANVAS_ZOOM_MAX_MOBILE ELSE CANVAS_ZOOM_MAX)

\* C4: an accepted tile click that is not a re-click of the active tile leaves
\* the stage FOCUSED (1), moveSinceZoom 0, the clicked tile active with
\* moveSinceActive 0, and the scale at the device's ZOOM_MAX, from any stage.
C4_Step ==
    \A k \in Tiles :
        (ClickOn(k) /\ ~IsReClick(k) /\ ~IsDragTail) =>
            /\ zoomStage' = 1
            /\ moveSinceZoom' = 0
            /\ activeTileIndex' = k
            /\ moveSinceActive' = 0
            /\ canvasScale' = (IF layout.vw <= 768 THEN CANVAS_ZOOM_MAX_MOBILE
                                                   ELSE CANVAS_ZOOM_MAX)

C4_ClickFocuses == [][C4_Step]_vars

\* C4 witness: tile 1 has just been clicked on a mobile viewport; the centring
\* tween is still running.
C4_Witness ==
    /\ zoomStage = 1 /\ moveSinceZoom = 0
    /\ activeTileIndex = 1 /\ moveSinceActive = 0
    /\ layout = Mobile /\ canvasScale = CANVAS_ZOOM_MAX_MOBILE
    /\ ~AtRest /\ ~pressed

\* C5: while the stage is FOCUSED and scale > 1, a pan event that leaves the
\* accumulated distance below FIRST_ZOOM_OUT_THRESHOLD keeps the stage FOCUSED;
\* the pan event that brings it to the threshold or above moves the stage to
\* INTERMEDIATE, sets the scale to INTERMEDIATE_CANVAS_ZOOM and clears the
\* active tile.
C5_Step ==
    \A dist \in PanDistances :
        (zoomStage = 1 /\ canvasScale > 1000 /\ AcceptedPan(dist)) =>
            IF moveSinceZoom + dist >= FIRST_ZOOM_OUT_THRESHOLD
            THEN /\ zoomStage' = 2
                 /\ canvasScale' = INTERMEDIATE_CANVAS_ZOOM
                 /\ activeTileIndex' = NoTile
            ELSE zoomStage' = 1

C5_FirstThreshold == [][C5_Step]_vars

\* C5 witness: pans summing to exactly the first threshold have just moved
\* the stage from FOCUSED to INTERMEDIATE within one drag.
C5_Witness ==
    /\ pressed /\ zoomBeforeDrag = CANVAS_ZOOM_MAX
    /\ zoomStage = 2 /\ canvasScale = INTERMEDIATE_CANVAS_ZOOM
    /\ moveSinceZoom = FIRST_ZOOM_OUT_THRESHOLD
    /\ activeTileIndex = NoTile

\* C6: while the stage is INTERMEDIATE and scale > 1, a pan event that brings
\* moveSinceZoom to SECOND_ZOOM_OUT_THRESHOLD or more makes the stage NONE,
\* the scale ZOOM_DEFAULT and the active tile null; below the threshold the
\* stage stays INTERMEDIATE.
C6_Step ==
    \A dist \in PanDistances :
        (zoomStage = 2 /\ canvasScale > 1000 /\ AcceptedPan(dist)) =>
            IF moveSinceZoom + dist >= SECOND_ZOOM_OUT_THRESHOLD
            THEN /\ zoomStage' = 0
                 /\ canvasScale' = CANVAS_ZOOM_DEFAULT
                 /\ activeTileIndex' = NoTile
            ELSE zoomStage' = 2

C6_SecondThreshold == [][C6_Step]_vars

\* C6 witness: a drag that started in the intermediate stage (scale 1.5) has
\* panned the canvas back to the default zoom and stage NONE.
C6_Witness ==
    /\ pressed /\ zoomBeforeDrag = INTERMEDIATE_CANVAS_ZOOM
    /\ dragDistance > 0 /\ isPanning
    /\ zoomStage = 0 /\ canvasScale = CANVAS_ZOOM_DEFAULT /\ moveSinceZoom = 0

\* C7 (as stated): moveSinceZoom is 0 immediately after every zoom-stage
\* transition and after every new focus command.
C7_ResetOnEveryTransition ==
    [][ /\ (zoomStage' # zoomStage => moveSinceZoom' = 0)
        /\ \A k \in Tiles :
              (ClickOn(k) /\ ~IsReClick(k) /\ ~IsDragTail) => moveSinceZoom' = 0 ]_vars

\* C7 (amended): moveSinceZoom is 0 immediately after every transition into
\* FOCUSED or NONE and after every new focus command; the transition
\* FOCUSED -> INTERMEDIATE keeps the distance accumulated since the focus
\* (at least FIRST_ZOOM_OUT_THRESHOLD), so the second threshold is measured
\* from the focus.
C7_Step ==
    /\ (zoomStage' # zoomStage /\ zoomStage' # 2) => moveSinceZoom' = 0
    /\ \A k \in Tiles :
          (ClickOn(k) /\ ~IsReClick(k) /\ ~IsDragTail) => moveSinceZoom' = 0
    /\ (zoomStage' # zoomStage /\ zoomStage' = 2) =>
          /\ zoomStage = 1
          /\ moveSinceZoom' > moveSinceZoom
          /\ moveSinceZoom' >= FIRST_ZOOM_OUT_THRESHOLD

C7_ResetExceptIntermediate == [][C7_Step]_vars

\* C7 witness: the stage is INTERMEDIATE and the counter still holds the
\* distance panned since the focus.
C7_Witness ==
    /\ zoomStage = 2 /\ canvasScale = INTERMEDIATE_CANVAS_ZOOM
    /\ moveSinceZoom = FIRST_ZOOM_OUT_THRESHOLD + 250

\* C8: a click on the active tile while scale > 1 clears the active tile, sets
\* the scale to ZOOM_DEFAULT and the stage to NONE, whatever the accumulated
\* distance, the stage and the drag state, and does not move the camera target.
C8_Step ==
    \A k \in Tiles :
        (ClickOn(k) /\ IsReClick(k)) =>
            /\ activeTileIndex' = NoTile
            /\ canvasScale' = CANVAS_ZOOM_DEFAULT
            /\ zoomStage' = 0
            /\ incr' = incr /\ tween' = tween /\ worldOffset' = worldOffset

C8_ReClickZoomsOut == [][C8_Step]_vars

\* C8 witness: right after a drag that began at full zoom and panned 250 px
\* (the reset timer is still pending) the canvas is back at the default zoom,
\* which only a re-click of the active tile can have done.
C8_Witness ==
    /\ ~pressed /\ dragResetTimers = 1 /\ isDragging /\ dragDistance = 250
    /\ zoomBeforeDrag = CANVAS_ZOOM_MAX
    /\ canvasScale = CANVAS_ZOOM_DEFAULT /\ zoomStage = 0
    /\ activeTileIndex = NoTile /\ moveSinceZoom = 0

\* C9: while tile k is active, a pan event that leaves the distance panned
\* since the activation below ACTIVE_TILE_CLEAR_THRESHOLD leaves tile k
\* active, and the pan event that brings it to the threshold or more clears it.
C9_LatchAndClear ==
    [][ \A dist \in PanDistances :
          (activeTileIndex # NoTile /\ AcceptedPan(dist)) =>
              IF moveSinceActive + dist >= ACTIVE_TILE_CLEAR_THRESHOLD
              THEN activeTileIndex' = NoTile
              ELSE activeTileIndex' = activeTileIndex ]_vars

\* C10: whenever the zoom stage returns to NONE, the active tile is null in
\* the resulting state.
C10_NoneClearsActive ==
    [][ (zoomStage # 0 /\ zoomStage' = 0) => activeTileIndex' = NoTile ]_vars

\* C10 witness: after a drag that began in the intermediate stage the stage
\* is NONE again and no tile is active.
C10_Witness ==
    /\ ~pressed /\ introPhase = "done"
    /\ zoomBeforeDrag = INTERMEDIATE_CANVAS_ZOOM
    /\ zoomStage = 0 /\ canvasScale = CANVAS_ZOOM_DEFAULT
    /\ activeTileIndex = NoTile

\* C11: while isIntroAnimating is true, every gesture callback (drag start,
\* drag end, wheel, change-X, change-Y) leaves the scale, the incremental
\* target, worldOffset, the zoom stage, the distance counters, the active tile
\* and the dragging flag unchanged.
C11_IntroLock ==
    [][ (isIntroAnimating /\ GestureCallback) =>
            UNCHANGED <<canvasScale, incr, worldOffset, zoomStage, moveSinceZoom,
                        moveSinceActive, activeTileIndex, isDragging, dragDistance>> ]_vars

\* C12: a tile click received while isIntroAnimating is true changes nothing
\* (active tile, stage, scale, targets, tweens), and nothing of it is left for
\* later: in the state in which the intro completes no tile is active, the
\* stage is NONE, no camera tween runs and the target is the camera position.
C12_Step ==
    /\ \A k \in Tiles, q \in AllTileCentres :
          (isIntroAnimating
              /\ OnTileClick(k, ScreenDisplacement(q, worldOffset, canvasScale)))
          => UNCHANGED vars
    /\ (isIntroAnimating /\ ~isIntroAnimating') =>
          /\ activeTileIndex' = NoTile /\ zoomStage' = 0
          /\ ~tween'.x.active /\ ~tween'.y.active
          /\ incr' = worldOffset'

C12_IntroClickDropped == [][C12_Step]_vars

\* C12 witness: the intro tween is running, a tile can be clicked (no drag is
\* in progress) and the controller is still in its mount state.
C12_Witness ==
    /\ introPhase = "animating" /\ isIntroAnimating /\ ~pressed
    /\ activeTileIndex = NoTile /\ zoomStage = 0
    /\ ~tween.x.active /\ ~tween.y.active
    /\ incr = worldOffset

\* C13: interaction is disabled from mount until the intro tween completes,
\* and the step that enables it leaves the scale at the device's default zoom
\* and the pan bounds recomputed from the measurements of that moment, with
\* the camera clamped into them: interaction is never enabled over the bounds
\* from before the intro completed.
C13_EnableStep ==
    (isIntroAnimating /\ ~isIntroAnimating') =>
        /\ introPhase = "animating" /\ introPhase' = "done"
        /\ canvasScale' = (IF layout'.vw <= 768 THEN CANVAS_ZOOM_DEFAULT_MOBILE
                                                  ELSE CANVAS_ZOOM_DEFAULT)
        /\ panBounds' = ComputePanBounds(layout')
        /\ InBounds(worldOffset', panBounds') /\ InBounds(incr', panBounds')

C14_IntroScaleBeforeSignal ==
    introPhase = "loading" =>
        canvasScale \in {CANVAS_ZOOM_INTRO, CANVAS_ZOOM_INTRO_MOBILE}

\* The scroll delta onWheel derives from the raw deltas, in thousandths of scale.
ScrollDelta(w) == IF Abs(w.dy) > Abs(w.dx) THEN -w.dy ELSE -w.dx

\* C15: an accepted wheel event sets the scale to
\* clamp(ZOOM_MIN, ZOOM_MAX, scale + scrollDelta * sensitivity) of the device
\* class: a request past a limit ends at the limit, inside the range.
C15_Step ==
    \A w \in AllWheelDeltas :
        (~isIntroAnimating /\ OnWheel(w)) =>
            LET lo == IF layout.vw <= 768 THEN CANVAS_ZOOM_MIN_MOBILE ELSE CANVAS_ZOOM_MIN
                hi == IF layout.vw <= 768 THEN CANVAS_ZOOM_MAX_MOBILE ELSE CANVAS_ZOOM_MAX
            IN  /\ canvasScale' = Clamp(lo, hi, canvasScale + ScrollDelta(w))
                /\ lo <= canvasScale' /\ canvasScale' <= hi

C15_WheelClamped == [][C15_Step]_vars

\* C15 witness: on a desktop viewport the wheel has zoomed in from the default
\* zoom by 2.3; the request for 3.3 ended at CANVAS_ZOOM_MAX, and the debounce
\* timer of that wheel event is still pending.
C15_Witness ==
    /\ layout = Desktop /\ introPhase = "done"
    /\ zoomStage = 0 /\ activeTileIndex = NoTile
    /\ canvasScale = CANVAS_ZOOM_MAX
    /\ isPanning /\ panningTimeout = 1

\* C16: at the device's ZOOM_MAX a further zoom-in wheel delta, and at
\* ZOOM_MIN a further zoom-out delta, is a no-op: the scale is unchanged, the
\* panning flag is not raised and no debounce timer is started.
C16_Step ==
    \A w \in AllWheelDeltas :
        (/\ ~isIntroAnimating
         /\ OnWheel(w)
         /\ \/ canvasScale = MaxZoom(layout) /\ ScrollDelta(w) > 0
            \/ canvasScale = MinZoom(layout) /\ ScrollDelta(w) < 0)
        => UNCHANGED <<canvasScale, isPanning, panningTimeout>>

C16_WheelNoOpAtLimit == [][C16_Step]_vars

\* C16 witness: the wheel has zoomed out to CANVAS_ZOOM_MIN on a desktop
\* viewport and the debounce timer has fired; a further zoom-out delta finds
\* the canvas in this state.
C16_Witness ==
    /\ layout = Desktop /\ introPhase = "done" /\ ~pressed
    /\ canvasScale = CANVAS_ZOOM_MIN
    /\ ~isPanning /\ panningTimeout = 0

\* C17: a wheel event leaves the two distance counters, the zoom stage, the
\* active tile, the incremental target and worldOffset unchanged.
C17_Step ==
    \A w \in AllWheelDeltas :
        OnWheel(w) =>
            UNCHANGED <<moveSinceZoom, moveSinceActive, zoomStage, activeTileIndex,
                        incr, worldOffset, tween, dragDistance>>

C17_WheelOnlyScales == [][C17_Step]_vars

\* C17 witness: the wheel has zoomed out while a tile was focused: the scale
\* is CANVAS_ZOOM_MIN, and the stage is still FOCUSED with the tile active and
\* both counters at 0.
C17_Witness ==
    /\ layout = Desktop /\ canvasScale = CANVAS_ZOOM_MIN
    /\ zoomStage = 1 /\ activeTileIndex = 0
    /\ moveSinceZoom = 0 /\ moveSinceActive = 0
    /\ isPanning

\* The step is a click on tile k, at camera offset q, that handleTileClick
\* carries out (not dropped by the intro lock, not the toggle, not a drag tail).
CentringClick(k, q) ==
    /\ ~isIntroAnimating /\ ~IsReClick(k) /\ ~IsDragTail
    /\ OnTileClick(k, ScreenDisplacement(q, worldOffset, canvasScale))

\* The centring delta (viewportCentre - p) / s for a tile at camera offset q.
CentringDelta(q) ==
    [x |-> ((q.x - worldOffset.x) * canvasScale) \div canvasScale,
     y |-> ((q.y - worldOffset.y) * canvasScale) \div canvasScale]

\* C18 as stated: the new target is the old incremental target plus
\* (viewportCentre - p) / s, clamped, also when the click arrives while a pan
\* or centring tween is in flight.
C18_TargetFromIncr ==
    [][ \A k \in Tiles, q \in AllTileCentres :
          CentringClick(k, q) =>
              /\ incr'.x = Clamp(panBounds.minX, panBounds.maxX, incr.x + CentringDelta(q).x)
              /\ incr'.y = Clamp(panBounds.minY, panBounds.maxY, incr.y + CentringDelta(q).y)
      ]_vars

\* C18 amended: the new target is the smoothed camera position worldOffset
\* at the time of the click plus (viewportCentre - p) / s, clamped, and it is
\* handed to both smoothers, which have not moved the camera yet; it is the
\* old incremental target plus the delta only where the camera has caught up
\* with the target.
C18_Step ==
    \A k \in Tiles, q \in AllTileCentres :
        CentringClick(k, q) =>
            /\ incr'.x = Clamp(panBounds.minX, panBounds.maxX,
                               worldOffset.x + CentringDelta(q).x)
            /\ incr'.y = Clamp(panBounds.minY, panBounds.maxY,
                               worldOffset.y + CentringDelta(q).y)
            /\ tween'.x.active /\ tween'.x.to = incr'.x
            /\ tween'.y.active /\ tween'.y.to = incr'.y
            /\ worldOffset' = worldOffset

C18_TargetFromSmoothed == [][C18_Step]_vars

\* C18 witness: on a desktop viewport a tile was clicked within the debounce
\* window of a gesture and before an animation frame ran: the camera is still
\* at the centred position and both smoothers hold the clamped position of
\* the tile.
C18_Witness ==
    /\ layout = Desktop /\ ~pressed /\ isPanning
    /\ zoomStage = 1 /\ activeTileIndex # NoTile /\ moveSinceZoom = 0
    /\ canvasScale = CANVAS_ZOOM_MAX
    /\ worldOffset = [x |-> 0, y |-> CentreY(Desktop)]
    /\ incr = [x |-> 600, y |-> 120]
    /\ tween.x.active /\ tween.x.to = 600
    /\ tween.y.active /\ tween.y.to = 120

\* The pan bounds of measurements l, sized for zoom level zoom (thousandths):
\* half the overflow plus the edge padding, times the zoom, around the
\* centred position.
BoundsAtZoom(l, zoom) ==
    LET overX == IF l.cw > l.vw THEN l.cw - l.vw ELSE 0
        overY == IF l.ch > l.vh THEN l.ch - l.vh ELSE 0
        hx    == ((overX \div 2 + 120) * zoom) \div 1000
        hy    == ((overY \div 2 + 120) * zoom) \div 1000
        cy    == (l.vh - l.ch) \div 2
    IN  [minX |-> -hx, maxX |-> hx, minY |-> cy - hy, maxY |-> cy + hy]

\* C19 as stated: the centring target is clamped into the pan bounds computed
\* for the zoom level the camera is animating to, the device's ZOOM_MAX.
C19_ClampAtDeviceMax ==
    [][ \A k \in Tiles, q \in AllTileCentres :
          CentringClick(k, q) =>
              LET b == BoundsAtZoom(layout, IF layout.vw <= 768
                                            THEN CANVAS_ZOOM_MAX_MOBILE
                                            ELSE CANVAS_ZOOM_MAX)
              IN  /\ incr'.x = Clamp(b.minX, b.maxX, worldOffset.x + CentringDelta(q).x)
                  /\ incr'.y = Clamp(b.minY, b.maxY, worldOffset.y + CentringDelta(q).y)
      ]_vars

\* C19 amended: the centring target is clamped into the one set of pan bounds
\* the controller holds, which is sized for CANVAS_ZOOM_MAX (3, the desktop
\* maximum) on both device classes and does not depend on the scale in force
\* at the click nor on the device's own maximum zoom.
C19_Step ==
    \A k \in Tiles, q \in AllTileCentres :
        CentringClick(k, q) =>
            LET b == BoundsAtZoom(layout, CANVAS_ZOOM_MAX)
            IN  /\ panBounds = b /\ panBounds' = b
                /\ incr'.x = Clamp(b.minX, b.maxX, worldOffset.x + CentringDelta(q).x)
                /\ incr'.y = Clamp(b.minY, b.maxY, worldOffset.y + CentringDelta(q).y)

C19_ClampAtDesktopMax == [][C19_Step]_vars

\* C19 witness: on a mobile viewport (maximum zoom 1.5) a tile in the far
\* corner was clicked: the target sits on the edge of the bounds sized for
\* zoom 3, outside the bounds sized for zoom 1.5.
C19_Witness ==
    /\ layout = Mobile /\ canvasScale = CANVAS_ZOOM_MAX_MOBILE
    /\ zoomStage = 1 /\ activeTileIndex # NoTile
    /\ incr.x = BoundsAtZoom(Mobile, CANVAS_ZOOM_MAX).maxX
    /\ incr.x > BoundsAtZoom(Mobile, CANVAS_ZOOM_MAX_MOBILE).maxX
    /\ tween.x.active /\ tween.x.to = incr.x

\* C20: for every combination of content size and viewport size, content
\* smaller than the viewport included, the computed pan bounds satisfy
\* minX <= maxX and minY <= maxY.
C20_BoundsOrdered ==
    /\ panBounds.minX <= panBounds.maxX
    /\ panBounds.minY <= panBounds.maxY

\* C20 witness: a resize has left the content smaller than the viewport in
\* both directions; the bounds are the edge padding around the centred
\* position and the camera was clamped into them from elsewhere.
C20_Witness ==
    /\ layout.cw < layout.vw /\ layout.ch < layout.vh
    /\ panBounds = ComputePanBounds(layout)
    /\ panBounds.maxX - panBounds.minX = 2 * EDGE_PADDING * PAN_EXPANSION_FACTOR
    /\ worldOffset.y # CentreY(layout)

\* C21 as stated: once the intro has completed, the stored pan bounds are
\* the bounds of the current measurements sized for the current scale, so
\* that the permitted travel grows with the zoom level.
C21_BoundsTrackScale ==
    introPhase = "done" => panBounds = BoundsAtZoom(layout, canvasScale)

\* C21 amended: the pan bounds are recomputed on mount, on every resize and
\* when the intro completes, never on a scale change: in every reachable
\* state they are the bounds of the current measurements sized for
\* CANVAS_ZOOM_MAX, and every step that changes only the scale (wheel zoom,
\* click-to-zoom, staged zoom-out, zoomOut, drag zoom) leaves them as they are.
C21_BoundsIgnoreScale ==
    /\ [](panBounds = BoundsAtZoom(layout, CANVAS_ZOOM_MAX))
    /\ [][(canvasScale' # canvasScale /\ layout' = layout) => panBounds' = panBounds]_vars

\* C21 witness: after a click-to-zoom and the first staged zoom-out the scale
\* is 1.5 on the narrow viewport, and the stored bounds are still the ones
\* sized for zoom 3.
C21_Witness ==
    /\ layout = MobileWide /\ introPhase = "done"
    /\ canvasScale = INTERMEDIATE_CANVAS_ZOOM /\ zoomStage = 2
    /\ panBounds = BoundsAtZoom(MobileWide, CANVAS_ZOOM_MAX)
    /\ panBounds # BoundsAtZoom(MobileWide, canvasScale)

\* C22 as stated: with a measured viewport and content size of zero the
\* computed bounds are a zero-size bound, minX = maxX = 0 and minY = maxY.
C22_ZeroSizeBound ==
    layout = ZeroLayout =>
        /\ panBounds.minX = 0 /\ panBounds.maxX = 0
        /\ panBounds.minY = panBounds.maxY

\* C22 amended: with a measured viewport and content size of zero the
\* computed bounds are finite and not empty: the edge padding times the
\* expansion factor (120 * 3 = 360 px) on each side of the origin; the camera
\* is clamped into them, and the scale the centring divides by is positive.
C22_ZeroMeasurements ==
    /\ canvasScale > 0
    /\ layout = ZeroLayout =>
          /\ panBounds = [minX |-> -360, maxX |-> 360, minY |-> -360, maxY |-> 360]
          /\ InBounds(worldOffset, panBounds) /\ InBounds(incr, panBounds)

\* C22 witness: a recompute has run with all measurements zero, from a camera
\* position below the new bounds: the camera sits on their lower edge.
C22_Witness ==
    /\ layout = ZeroLayout
    /\ panBounds.maxX = 360
    /\ worldOffset.y = panBounds.minY

\* C23: zoomOut called with a scale different from ZOOM_DEFAULT sets the
\* scale to ZOOM_DEFAULT, the stage to NONE, the distance since the zoom to 0
\* and the active tile to null; called with the scale at ZOOM_DEFAULT it
\* changes nothing; a second call changes nothing more.  Checked for the
\* call from every reachable state and on the steps that make the call.
C23_Call ==
    LET once == ZoomOutCanvas(Core)
    IN  /\ canvasScale # CANVAS_ZOOM_DEFAULT =>
              /\ once.scale = CANVAS_ZOOM_DEFAULT /\ once.stage = 0
              /\ once.move = 0 /\ once.active = NoTile
        /\ canvasScale = CANVAS_ZOOM_DEFAULT => once = Core
        /\ ZoomOutCanvas(once) = once

C23_Step ==
    \A k \in Tiles :
        (ClickOn(k) /\ IsReClick(k)) =>
            /\ canvasScale' = CANVAS_ZOOM_DEFAULT /\ zoomStage' = 0
            /\ moveSinceZoom' = 0 /\ activeTileIndex' = NoTile

C23_ZoomOut == []C23_Call /\ [][C23_Step]_vars

\* C23 witness: the last drag began at the full zoom of a focused tile, and
\* the canvas is now back at the default zoom with stage NONE, distance 0 and
\* no active tile, which only zoomOut can have done.
C23_Witness ==
    /\ ~pressed /\ dragResetTimers = 0 /\ ~isDragging
    /\ zoomBeforeDrag = CANVAS_ZOOM_MAX
    /\ canvasScale = CANVAS_ZOOM_DEFAULT /\ zoomStage = 0
    /\ moveSinceZoom = 0 /\ activeTileIndex = NoTile

\* The parts of C24 that do not depend on what happens during the drag: an
\* accepted drag start at scale <= ZOOM_DEFAULT multiplies the scale by 0.95,
\* one at scale > ZOOM_DEFAULT leaves it; either remembers the scale held
\* before the drag; the end of a drag started above ZOOM_DEFAULT leaves the
\* scale; drag start and drag end leave the stage and the distance since the
\* zoom unchanged.
C24_Common ==
    /\ (~isIntroAnimating /\ OnDragStart) =>
          /\ zoomBeforeDrag' = canvasScale
          /\ IF canvasScale <= CANVAS_ZOOM_DEFAULT
             THEN canvasScale' * 100 = canvasScale * 95
             ELSE canvasScale' = canvasScale
    /\ (~isIntroAnimating /\ OnDragEnd /\ zoomBeforeDrag > CANVAS_ZOOM_DEFAULT) =>
          canvasScale' = canvasScale
    /\ (OnDragStart \/ OnDragEnd) => UNCHANGED <<zoomStage, moveSinceZoom>>

\* C24 as stated: the end of a drag that started at scale <= ZOOM_DEFAULT
\* restores exactly the scale held before the drag (isDragging: the start of
\* this drag was accepted, so zoomBeforeDrag is that scale).
C24_AlwaysRestores ==
    [][ /\ C24_Common
        /\ (~isIntroAnimating /\ OnDragEnd /\ isDragging
              /\ zoomBeforeDrag <= CANVAS_ZOOM_DEFAULT) =>
              canvasScale' = zoomBeforeDrag ]_vars

\* C24 amended: the end of a drag that started at scale <= ZOOM_DEFAULT
\* restores the scale held before the drag if the scale is still below it,
\* which it is unless a wheel zoom during the drag raised it; otherwise the
\* drag end leaves the scale as the wheel set it.
C24_RestoresIfBelow ==
    [][ /\ C24_Common
        /\ (~isIntroAnimating /\ OnDragEnd /\ zoomBeforeDrag <= CANVAS_ZOOM_DEFAULT) =>
              canvasScale' = (IF canvasScale < zoomBeforeDrag THEN zoomBeforeDrag
                                                              ELSE canvasScale)
        /\ (~isIntroAnimating /\ OnDragEnd /\ zoomBeforeDrag <= CANVAS_ZOOM_DEFAULT
              /\ canvasScale * 100 = zoomBeforeDrag * 95) =>
              canvasScale' = zoomBeforeDrag ]_vars

\* C24 witness: a drag that began at CANVAS_ZOOM_MIN (0.7, shown at 0.665
\* during the drag) and panned 250 px has just ended: the scale is 0.7 again.
C24_Witness ==
    /\ ~pressed /\ dragResetTimers = 1 /\ isDragging /\ dragDistance = 250
    /\ zoomBeforeDrag = CANVAS_ZOOM_MIN /\ canvasScale = CANVAS_ZOOM_MIN
    /\ zoomStage = 0

\* C25: a pan or centring issued while a tween is in flight replaces the
\* smoothing target, nothing is queued, and once the smoothers have finished
\* the smoothed worldOffset equals the incremental target held by the
\* controller, also after a resize that re-clamped the position while a
\* tween was running.
C25_RestsAtTarget ==
    /\ tween.x.active => tween.x.to = incr.x
    /\ tween.y.active => tween.y.to = incr.y
    /\ (~tween.x.active /\ ~tween.y.active) => worldOffset = incr

\* The step is an input that marks panning: an accepted drag/touch pan event
\* or a wheel event that changes the scale.
PanningInput ==
    /\ ~isIntroAnimating
    /\ \/ \E d \in AllPanDeltas : OnChangeX(d) \/ OnChangeY(d)
       \/ \E w \in AllWheelDeltas : OnWheel(w) /\ canvasScale' # canvasScale

\* C26: every drag/touch pan event and every scale-changing wheel event sets
\* isPanning and leaves exactly one debounce timer pending; at most one timer
\* is ever pending; isPanning is true exactly while a timer is pending, so it
\* becomes false only when the timer of the last input fires, and it becomes
\* true again only by an input.
C26_Step ==
    /\ PanningInput => isPanning' /\ panningTimeout' = 1
    /\ (isPanning /\ ~isPanning') =>
          /\ panningTimeout = 1 /\ panningTimeout' = 0
          /\ UNCHANGED <<coreVars, cameraVars, dragVars, introVars, pressed, layout, gridVars>>
    /\ (~isPanning /\ isPanning') => PanningInput

C26_PanningFlag ==
    /\ [](panningTimeout \in {0, 1} /\ (isPanning <=> panningTimeout = 1))
    /\ [][C26_Step]_vars

\* C26 witness: a drag has panned vertically, has ended and been reset, and
\* the one debounce timer, that of its last pan event, has not fired yet.
C26_Witness ==
    /\ ~pressed /\ ~isDragging /\ dragResetTimers = 0
    /\ zoomBeforeDrag = CANVAS_ZOOM_DEFAULT /\ canvasScale = CANVAS_ZOOM_DEFAULT
    /\ incr.y # CentreY(layout)
    /\ isPanning /\ panningTimeout = 1

----------------------------------------------------------------------------
(* The tile layout.                                                        *)

C28_PlaceholderFill ==
    projects = <<>> =>
        /\ Len(tiles) = MIN_PROJECTS_FOR_CANVAS
        /\ \A i \in 0..(MIN_PROJECTS_FOR_CANVAS - 1) :
              /\ tiles[i + 1].index = i
              /\ tiles[i + 1].aspectRatio = ASPECT_RATIOS[(i % 4) + 1]

\* C29: for a non-empty list of n projects the layout has N = max(n, 100)
\* descriptors with indices 0..N-1 in order; descriptor i is the one built
\* from project (i mod n) of the hash-ordered list, which holds every project
\* of the list once, in non-decreasing order of hash; so every project
\* appears, and descriptors i and i mod n differ in nothing but the index.
C29_CyclicFill ==
    projects # <<>> =>
        LET n      == Len(projects)
            N      == Max(n, MIN_PROJECTS_FOR_CANVAS)
            sorted == ShuffledProjects(projects)
        IN  /\ Len(tiles) = N
            /\ \A i \in 0..(N - 1) :
                  /\ tiles[i + 1].index = i
                  /\ tiles[i + 1] = TileFrom(i, BaseTile(sorted[(i % n) + 1]))
                  /\ [tiles[i + 1] EXCEPT !.index = i % n] = tiles[(i % n) + 1]
                  /\ tiles[i + 1].category =
                        MapProjectTypeToFilterCategory(tiles[i + 1].project.type)
            /\ \A k \in 1..n : \E i \in 0..(n - 1) : tiles[i + 1].project = projects[k]
            /\ \A i \in 1..(n - 1) :
                  StableHash(tiles[i].project._id) <= StableHash(tiles[i + 1].project._id)

\* C29 witness: three projects are laid out; the fourth descriptor repeats the
\* first and the hundredth, the last, repeats it again.
C29_Witness ==
    /\ Len(projects) = 3
    /\ Len(tiles) = MIN_PROJECTS_FOR_CANVAS
    /\ tiles[4].index = 3 /\ tiles[4].project = tiles[1].project
    /\ tiles[100].index = 99 /\ tiles[100].project = tiles[1].project
    /\ tiles[2].project # tiles[1].project

\* The same projects in another order: every order for a list of at most
\* MaxPermuted projects, the reverse order for a longer one.
MaxPermuted == 4

Reverse(items) == [i \in 1..Len(items) |-> items[Len(items) + 1 - i]]

Reorderings(items) ==
    LET n == Len(items)
    IN  IF n <= MaxPermuted
        THEN { [i \in 1..n |-> items[f[i]]] :
                  f \in { g \in [1..n -> 1..n] : \A i, j \in 1..n : i # j => g[i] # g[j] } }
        ELSE { items, Reverse(items) }

\* No two projects of the list have the same hash.
HashesDistinct(items) ==
    \A i, j \in 1..Len(items) :
        i # j => StableHash(items[i]._id) # StableHash(items[j]._id)

\* The position of the first descriptor that carries the project.
FirstTileOf(project) == CHOOSE k \in 1..Len(tiles) : tiles[k].project = project

\* C30 as stated: every reordering of the project list yields the array the
\* list itself yields, also when two projects have the same hash.
C30_AnyOrder ==
    \A q \in Reorderings(projects) : BuildTiles(q) = tiles

\* C30: where the hashes of the projects are pairwise distinct, every
\* reordering of the list yields the same array; projects whose hashes are
\* equal are laid out in the order the list gives them in.
C30_DistinctHashes ==
    /\ HashesDistinct(projects) => \A q \in Reorderings(projects) : BuildTiles(q) = tiles
    /\ \A i, j \in 1..Len(projects) :
          (i < j /\ StableHash(projects[i]._id) = StableHash(projects[j]._id))
              => FirstTileOf(projects[i]) < FirstTileOf(projects[j])

\* C30 witness: three projects with distinct hashes, given in the reverse of
\* their hash order, are laid out in hash order.
C30_Witness ==
    /\ projects = <<ProjectAa, ProjectC, ProjectZz>>
    /\ Len(tiles) = MIN_PROJECTS_FOR_CANVAS
    /\ tiles[1].project = ProjectZz /\ tiles[2].project = ProjectC
    /\ tiles[3].project = ProjectAa

\* C31: when activeCategories is empty or holds "All" every tile is visible;
\* otherwise a tile is visible exactly when its category is one of
\* activeCategories; whatever the filter, tilesWithVisibility has the length
\* and order of tilesWithCategories and each of its entries differs from the
\* entry it comes from in nothing but the added isVisible.
C31_VisibilityFilter ==
    LET showAll == activeCategories = <<>> \/ Includes(activeCategories, "All")
    IN  /\ Len(tilesWithVisibility) = Len(tiles)
        /\ \A i \in 1..Len(tiles) :
              LET out == tilesWithVisibility[i]
              IN  /\ out.isVisible <=> (showAll \/ Includes(activeCategories, out.category))
                  /\ out.index = tiles[i].index /\ out.index = i - 1
                  /\ out.category = tiles[i].category
                  /\ out.aspectRatio = tiles[i].aspectRatio
                  /\ out = WithVisibility(tiles[i], out.isVisible)

\* C31 witness: with photography, cinematography and direction projects laid
\* out and the filter on Cinematography and Direction, the second and third
\* tiles are visible and the first is hidden.
C31_Witness ==
    /\ projects = <<ProjectAa, ProjectBB, ProjectZz>>
    /\ activeCategories = <<"Cinematography", "Direction">>
    /\ Len(tilesWithVisibility) = MIN_PROJECTS_FOR_CANVAS
    /\ tilesWithVisibility[1].isVisible /\ tilesWithVisibility[1].category = "Direction"
    /\ ~tilesWithVisibility[2].isVisible /\ tilesWithVisibility[2].category = "Photography"
    /\ tilesWithVisibility[3].isVisible

\* C32 as stated: a tile of a project whose video is an external link with no
\* uploaded file has aspect ratio 16 / 9 and width factor 16/9.
C32_VideoLinkWide ==
    \A i \in 1..Len(tiles) :
        IsExternalVideoLink(tiles[i].project) =>
            tiles[i].aspectRatio = ASPECT_RATIOS[4] /\ tiles[i].widthFactor = ASPECT_RATIOS[4]

\* The dimensions the layout reads for a project: those of its thumbnail
\* image where it has one, of its image otherwise.
LayoutDimensions(project) ==
    IF project.thumbnailImage.present THEN project.thumbnailImage.dimensions
                                      ELSE project.image.dimensions

\* C32: the video fields of a project have no part in its aspect ratio: a
\* tile of a project whose video is an external link has the aspect ratio and
\* width factor of the same project with an uploaded file and no link, which
\* is the ratio recorded for its thumbnail (for its image where it has no
\* thumbnail): aspectRatio where positive, else width / height where both
\* are set, else 1 / 1 with width factor 1.
C32_VideoLinkAsThumbnail ==
    \A i \in 1..Len(tiles) :
        LET tile == tiles[i]
            p    == tile.project
            d    == LayoutDimensions(p)
            same == BaseTile([p EXCEPT !.videoLink = FALSE, !.playbackId = TRUE])
        IN  IsExternalVideoLink(p) =>
                /\ tile.aspectRatio = same.aspectRatio
                /\ tile.widthFactor = same.widthFactor
                /\ tile.widthFactor = tile.aspectRatio
                /\ d.aspectRatio > 0 => tile.aspectRatio = Fraction(d.aspectRatio, 1000)
                /\ (d.aspectRatio = 0 /\ d.width > 0 /\ d.height > 0)
                      => tile.aspectRatio = Fraction(d.width, d.height)
                /\ (d.aspectRatio = 0 /\ (d.width = 0 \/ d.height = 0))
                      => tile.aspectRatio = ASPECT_RATIOS[1]

\* C32 witness: the external video link whose thumbnail is 800 x 1000 is laid
\* out, alone, as 4 / 5.
C32_Witness ==
    /\ projects = <<ProjectBB>>
    /\ IsExternalVideoLink(tiles[1].project)
    /\ LayoutDimensions(tiles[1].project) = DimensionsOf(0, 800, 1000)
    /\ tiles[1].aspectRatio = <<4, 5>> /\ tiles[1].widthFactor = <<4, 5>>
    /\ tiles[1].aspectPadding = <<125, 1>>

----------------------------------------------------------------------------
(* The zoom stages and the drag.                                           *)

\* The step is an accepted pan event.
PanEvent == \E dist \in PanDistances : AcceptedPan(dist)

\* The step is an accepted click that focuses a tile.
FocusClick == \E k \in Tiles : ClickOn(k) /\ ~IsReClick(k) /\ ~IsDragTail

\* The step is an accepted click on the active tile at scale > 1.
ReClick == \E k \in Tiles : ClickOn(k) /\ IsReClick(k)

\* C33: the zoom stage changes only to FOCUSED by a focusing tile click, from
\* FOCUSED to INTERMEDIATE and from INTERMEDIATE to NONE by a pan event, and
\* to NONE by a re-click of the active tile or by intro completion; a pan
\* event leaves NONE as it is, takes FOCUSED to INTERMEDIATE at most (never
\* to NONE, however long the pan) and INTERMEDIATE to NONE at most.
C33_Step ==
    /\ zoomStage' # zoomStage =>
          \/ zoomStage' = 1 /\ FocusClick
          \/ zoomStage = 1 /\ zoomStage' = 2 /\ PanEvent
          \/ zoomStage = 2 /\ zoomStage' = 0 /\ PanEvent
          \/ zoomStage' = 0 /\ (ReClick \/ IntroComplete)
    /\ PanEvent =>
          /\ zoomStage = 0 => zoomStage' = 0
          /\ zoomStage = 1 => zoomStage' \in {1, 2}
          /\ zoomStage = 2 => zoomStage' \in {2, 0}

C33_StageTransitions == [][C33_Step]_vars

\* C33 witness: one pan event longer than the second threshold has taken the
\* stage from FOCUSED to INTERMEDIATE and no further.
C33_Witness ==
    /\ pressed /\ zoomBeforeDrag = CANVAS_ZOOM_MAX /\ dragDistance = 2500
    /\ zoomStage = 2 /\ canvasScale = INTERMEDIATE_CANVAS_ZOOM
    /\ moveSinceZoom = 2500 /\ moveSinceZoom >= SECOND_ZOOM_OUT_THRESHOLD

\* C34: a tile click rejected as the tail of a drag (isDragging set and
\* dragDistance >= 10) changes nothing: the active tile, the zoom stage, the
\* scale, the two distance counters and the camera target stay as they were.
C34_Step ==
    \A k \in Tiles :
        (ClickOn(k) /\ ~IsReClick(k) /\ IsDragTail) =>
            UNCHANGED <<activeTileIndex, zoomStage, canvasScale, moveSinceZoom,
                        moveSinceActive, incr>>

C34_RejectedClickNoOp == [][C34_Step]_vars

\* C35: within a drag (from its drag start to the matching drag end) the
\* dragging flag stays true and the accumulated drag distance is not reset,
\* also when the reset timer scheduled by the previous drag's end fires.
C35_Step ==
    (pressed /\ pressed' /\ isDragging) =>
        isDragging' /\ dragDistance' >= dragDistance

C35_DragFlagHeld == [][C35_Step]_vars

C36_Step ==
    \A dist \in PanDistances :
        (AcceptedPan(dist) /\ canvasScale > 1000) =>
            /\ zoomStage = 1 =>
                  IF moveSinceZoom + dist >= FIRST_ZOOM_OUT_THRESHOLD
                  THEN zoomStage' = 2 /\ canvasScale' > 1000
                       /\ moveSinceZoom' = moveSinceZoom + dist
                  ELSE zoomStage' = 1 /\ moveSinceZoom' = moveSinceZoom + dist
                       /\ canvasScale' = canvasScale
            /\ zoomStage = 2 =>
                  IF moveSinceZoom + dist >= SECOND_ZOOM_OUT_THRESHOLD
                  THEN zoomStage' = 0 /\ canvasScale' = CANVAS_ZOOM_DEFAULT
                  ELSE zoomStage' = 2 /\ moveSinceZoom' = moveSinceZoom + dist
                       /\ canvasScale' = canvasScale
            /\ zoomStage = 0 => zoomStage' = 0 /\ canvasScale' = canvasScale

C37_PanNeverZoomsIn ==
    [][(PanEvent /\ zoomStage' # zoomStage) => canvasScale' <= canvasScale]_vars

-----------------------------------------------------------------------------
(* The rows of the grid.                                                   *)

\* The number of rendered rows that hold the tile of index i.
RowsHolding(rows, i) ==
    Cardinality({ r \in DOMAIN rows : \E k \in 1..Len(rows[r]) : rows[r][k].index = i })

\* C38: for a list of n >= 1 projects, with N = max(n, 100), the grid has
\* cols = ceil(sqrt(N)) columns and rows = ceil(N / cols) rows; the rendered
\* rows, slices of cols tiles, hold every tile index 0..N-1 in exactly one
\* row, no row is empty, and rows * cols >= N > (rows - 1) * cols.
C38_GridPartition ==
    projects # <<>> =>
        LET N    == Max(Len(projects), MIN_PROJECTS_FOR_CANVAS)
            g    == Grid(projects)
            rows == RowTiles(projects, tilesWithVisibility)
        IN  /\ g.numberOfImages = N
            /\ (g.gridCols - 1) * (g.gridCols - 1) < N /\ N <= g.gridCols * g.gridCols
            /\ g.gridRows * g.gridCols >= N /\ N > (g.gridRows - 1) * g.gridCols
            /\ DOMAIN rows = 0..(g.gridRows - 1)
            /\ \A r \in DOMAIN rows : Len(rows[r]) >= 1 /\ Len(rows[r]) <= g.gridCols
            /\ \A i \in 0..(N - 1) : RowsHolding(rows, i) = 1

\* C38 witness: 111 projects are rendered in 11 rows of 11 columns, the last
\* row holding the single tile 110.
C38_Witness ==
    /\ Len(projects) = 111
    /\ Grid(projects).gridCols = 11 /\ Grid(projects).gridRows = 11
    /\ Len(RowTiles(projects, tilesWithVisibility)[10]) = 1
    /\ RowTiles(projects, tilesWithVisibility)[10][1].index = 110
    /\ Len(RowTiles(projects, tilesWithVisibility)[9]) = 11

-----------------------------------------------------------------------------
(* The hover latch of a tile.                                              *)

\* C39: a tile is rendered with shouldPlayVideo = true exactly when it is a
\* video tile and it is active or hovered; a mouse-leave of the active tile
\* leaves its hover state as it is; the tile that stops being active has its
\* hover state cleared; so a tile that is not the active one plays only if
\* the pointer is over it.
C39_Step ==
    /\ (pointerOver # NoTile /\ pointerOver' = NoTile /\ pointerOver = activeTileIndex
            /\ activeTileIndex' = activeTileIndex)
          => isHovered' = isHovered
    /\ (activeTileIndex # NoTile /\ activeTileIndex' # activeTileIndex)
          => activeTileIndex \notin isHovered'

C39_HoverLatch ==
    /\ [](/\ shouldPlayVideo =
               { t \in 0..(Len(tiles) - 1) :
                   tiles[t + 1].project.mediaType = "video"
                       /\ (t = activeTileIndex \/ t \in isHovered) }
          /\ \A t \in shouldPlayVideo : t = activeTileIndex \/ t = pointerOver)
    /\ [][C39_Step]_vars

\* C39 witness: the video tile is active and plays, latched after the pointer
\* has left it for the other tile.
C39_Witness ==
    /\ activeTileIndex \in shouldPlayVideo
    /\ activeTileIndex \in isHovered
    /\ pointerOver \notin {NoTile, activeTileIndex}
    /\ pointerOver \in isHovered
    /\ pointerOver \notin shouldPlayVideo

====
